---- MODULE Spec2Model ----
(***************************************************************************)
(* mergebot: the job store (src/src/job/store/impl.rs), its event bus and  *)
(* the hooks that re-enter it (src/src/job/hooks.rs), modelled at the      *)
(* level of threads, mutexes and store calls.                              *)
(*                                                                         *)
(* Option<T> is a sequence of length 0 (None) or 1 (Some(x)).              *)
(* A HashMap<Id, Job> is a function whose domain is the set of its keys.   *)
(***************************************************************************)
EXTENDS Integers, Sequences, FiniteSets, TLC

VARIABLES
  store,           \* StoreData: the five HashMaps, guarded by the store mutex
  store_lock,      \* holder of the Mutex<StoreData> (NoThread when free)
  LISTENERS,       \* the static Vec<Listener>
  listeners_lock,  \* holder of the Mutex<Vec<Listener>> (NoThread when free)
  issued,          \* ids Id::new() has produced so far (returned by create)
  stack,           \* per thread: its call stack of store-method frames
  spawned,         \* closures handed to std::thread::spawn, not yet running
  now,             \* Utc::now(), in seconds; no action of Spec lets time pass
  QUEUE,           \* exec: the worker's Vec<Work>
  JOB_QUEUE,       \* the MemQueue the executor reports to (VecDeque<Job>)
  worker,          \* exec: where the worker thread is, and exec's locals
  git_lock,        \* holder of git::impl::GIT_CLIENT (NoThread when free)
  workdir,         \* LocalClient::workdir
  git,             \* per thread: its use of the git client
  req,             \* per thread: the HTTP request it handles (main.rs filters)
  sent,            \* job_messenger: the calls of each send_job_* so far
  mutex,           \* mutex_extra.rs, tests: a Mutex<i32> and its users
  tokens,          \* slack/tokens.rs: the token file and the calls on it
  reading,         \* per thread: its call of Store::get_all
  APP_INIT         \* lib.rs: the startup Barrier

vars == <<store, store_lock, LISTENERS, listeners_lock, issued, stack,
          spawned, now, QUEUE, JOB_QUEUE, worker, git_lock, workdir, git,
          req, sent, mutex, tokens, reading, APP_INIT>>

exec_vars == <<QUEUE, JOB_QUEUE, worker>>
git_vars == <<git_lock, workdir, git>>
aux_vars == <<req, sent, mutex, tokens, reading, APP_INIT>>

----------------------------------------------------------------------------
(* Bounds of the model *)

MaxJobs == 1
MaxThreads == 2
MaxApprovedBy == 2
MaxListeners == 1
MaxWork == 1
MaxQueue == 2
MaxQueued == 2
MaxTime == 2
MaxCalls == 3
MaxTokens == 2

(* Program constants *)

RetryBackoff == 10
PoisonThreshold == 4
ExecBackoff == 5

NoThread == 0
Threads == 1..MaxThreads
JobIds == 1..MaxJobs

None == <<>>
Some(x) == <<x>>

----------------------------------------------------------------------------
(* Inputs *)

U1 == [kind |-> "User", id |-> "U1", approver |-> TRUE, min_approvers |-> 0]
G1 == [kind |-> "Group", id |-> "G1", approver |-> FALSE, min_approvers |-> 1]

Users == {U1, G1}

(* Strings that are matched loosely are sequences of one-character strings. *)
StagingName == <<"s", "t", "g">>
StagingTyped == <<" ", "S", "t", "g", " ">>

Staging == [name |-> StagingName, base |-> "qa", target |-> "staging",
            users |-> <<U1>>]

App1 == [name |-> "foo", team_id |-> "T1", notification_channel_id |-> "C1",
         repos |-> << [url |-> "r", name |-> "r",
                       environments |-> <<Staging>>] >>]

Apps == {App1}

Cmd1 == [app_name |-> "foo", env_name |-> StagingTyped, user_id |-> "U1",
         team_id |-> "T1"]

Commands == {Cmd1}

(* A single user who is told about deploys but is not a required approver *)
U2 == [kind |-> "User", id |-> "U2", approver |-> FALSE, min_approvers |-> 0]

StagingReviewed == [name |-> StagingName, base |-> "qa", target |-> "staging",
                    users |-> <<U1, U2>>]

Production == [name |-> <<"p", "r", "d">>, base |-> "staging",
               target |-> "main", users |-> <<U1>>]

(* Two repos that both have the staging environment *)
App2 == [name |-> "bar", team_id |-> "T1", notification_channel_id |-> "C1",
         repos |-> << [url |-> "r1", name |-> "r1",
                       environments |-> <<Staging>>],
                      [url |-> "r2", name |-> "r2",
                       environments |-> <<Staging>>] >>]

(* Two repos of which only the first has the staging environment:
   Command::find_app accepts the app when any repo has it. *)
App3 == [name |-> "baz", team_id |-> "T1", notification_channel_id |-> "C1",
         repos |-> << [url |-> "r1", name |-> "r1",
                       environments |-> <<StagingReviewed>>],
                      [url |-> "r2", name |-> "r2",
                       environments |-> <<Production>>] >>]

Cmd3 == [app_name |-> "baz", env_name |-> StagingTyped, user_id |-> "U1",
         team_id |-> "T1"]

(* The /deploy commands that arrive, each with the app find_app gives it *)
Requests == {[app |-> App1, command |-> Cmd1], [app |-> App3, command |-> Cmd3]}

MsgIds == {[channel |-> "C1", ts |-> "1"]}

ErrLists == {<<"CommandFailed">>}

----------------------------------------------------------------------------
(* str::trim and str::to_lowercase, over the characters the inputs use *)

IsSpace(c) == c = " "

to_lowercase_char(c) ==
  CASE c = "S" -> "s"
    [] c = "T" -> "t"
    [] c = "G" -> "g"
    [] OTHER -> c

to_lowercase(s) == [i \in 1..Len(s) |-> to_lowercase_char(s[i])]

RECURSIVE trim_start(_)
trim_start(s) ==
  IF s # <<>> /\ IsSpace(Head(s)) THEN trim_start(Tail(s)) ELSE s

RECURSIVE trim_end(_)
trim_end(s) ==
  IF s # <<>> /\ IsSpace(s[Len(s)])
    THEN trim_end(SubSeq(s, 1, Len(s) - 1))
    ELSE s

trim(s) == trim_end(trim_start(s))

(* Mergeable::name_eq *)
name_eq(env, name) == to_lowercase(trim(env.name)) = to_lowercase(trim(name))

----------------------------------------------------------------------------
(* Sequence helpers standing for the iterator adaptors the code uses *)

RECURSIVE FlatMap(_, _)
FlatMap(F(_), s) ==
  IF s = <<>> THEN <<>> ELSE F(Head(s)) \o FlatMap(F, Tail(s))

RECURSIVE Filter(_, _)
Filter(P(_), s) ==
  IF s = <<>> THEN <<>>
  ELSE (IF P(Head(s)) THEN <<Head(s)>> ELSE <<>>) \o Filter(P, Tail(s))

(* Vec::dedup: removes consecutive repeated elements *)
RECURSIVE dedup(_)
dedup(s) ==
  IF Len(s) < 2 THEN s
  ELSE IF s[1] = s[2] THEN dedup(Tail(s))
  ELSE <<s[1]>> \o dedup(Tail(s))

(* App::users *)
users(app, env_name) ==
  LET matching(r) == Filter(LAMBDA env : name_eq(env, env_name), r.environments)
      envs == FlatMap(matching, app.repos)
  IN  FlatMap(LAMBDA env : env.users, envs)

(* Job<StateInit>::outstanding_approvers *)
outstanding_approvers(job) ==
  LET approved_by == job.state.approved_by
      hasnt_approved(u) == \A i \in 1..Len(approved_by) : approved_by[i] # u
  IN  dedup(Filter(hasnt_approved, users(job.app, job.command.env_name)))

(* Job<StateErrored>::flatten_errors: go(&Some(state), vec![state]) *)
RECURSIVE flatten_go(_, _)
flatten_go(err, errs) ==
  IF err # None
    THEN flatten_go(err[1].prev_attempt, Append(errs, err[1]))
    ELSE errs

flatten_errors(job) == flatten_go(Some(job.state), <<job.state>>)

(* Job::map_state *)
map_state(job, new_state) ==
  [id |-> job.id, state |-> new_state, command |-> job.command, app |-> job.app]

----------------------------------------------------------------------------
(* HashMap *)

Has(m, k) == k \in DOMAIN m
Insert(m, k, v) == [x \in DOMAIN m \cup {k} |-> IF x = k THEN v ELSE m[x]]
Remove(m, k) == [x \in DOMAIN m \ {k} |-> m[x]]
EmptyMap == [x \in {} |-> 0]

(* StoreData::new *)
StoreDataNew ==
  [created |-> EmptyMap, approved |-> EmptyMap, errored |-> EmptyMap,
   poison |-> EmptyMap, done |-> EmptyMap]

Buckets == {"created", "approved", "errored", "poison", "done"}

(* Events *)
Event(type, job, user) == [type |-> type, job |-> job, user |-> user]

(* What a store method has decided when it leaves its locked section:
   the new StoreData, the value it will return, the event it emits (if any)
   and whether it goes on to call state_poisoned. *)
Outcome(s, ret, ev, poisons) ==
  [store |-> s, ret |-> ret, ev |-> ev, poisons |-> poisons]

----------------------------------------------------------------------------
(* The locked section of each store method (impl Store for Arc<Mutex<..>>) *)

NewJob(id, app, command) ==
  [id |-> id, state |-> [approved_by |-> <<>>, msg_id |-> None],
   command |-> command, app |-> app]

create(s, id, app, command) ==
  LET job == NewJob(id, app, command)
  IN  Outcome([s EXCEPT !.created = Insert(@, id, job)],
              Some(id), Some(Event("Created", job, None)), FALSE)

(* notified answering Some(job_id) whether or not the job is in created *)
notified_always_some(s, job_id, msg_id) ==
  IF Has(s.created, job_id)
    THEN Outcome([s EXCEPT !.created[job_id].state.msg_id = Some(msg_id)],
                 Some(job_id), None, FALSE)
    ELSE Outcome(s, Some(job_id), None, FALSE)

notified(s, job_id, msg_id) ==
  IF Has(s.created, job_id)
    THEN Outcome([s EXCEPT !.created[job_id].state.msg_id = Some(msg_id)],
                 Some(s.created[job_id].id), None, FALSE)
    ELSE Outcome(s, None, None, FALSE)

approved(s, job_id, user) ==
  IF Has(s.created, job_id)
    THEN LET j == [s.created[job_id] EXCEPT
                     !.state.approved_by = Append(@, user)]
         IN  Outcome([s EXCEPT !.created[job_id] = j],
                     Some(j.id), Some(Event("Approved", j, Some(user))), FALSE)
    ELSE Outcome(s, None, None, FALSE)

(* fully_approved that leaves the job in created as well *)
fully_approved_keeps_created(s, job_id) ==
  IF Has(s.created, job_id)
    THEN LET j == map_state(s.created[job_id],
                            [prev |-> s.created[job_id].state])
         IN  Outcome([s EXCEPT !.approved = Insert(@, job_id, j)],
                     Some(job_id), Some(Event("FullyApproved", j, None)), FALSE)
    ELSE Outcome(s, None, None, FALSE)

fully_approved(s, job_id) ==
  IF Has(s.created, job_id)
    THEN LET j == map_state(s.created[job_id],
                            [prev |-> s.created[job_id].state])
         IN  Outcome([s EXCEPT !.created = Remove(@, job_id),
                               !.approved = Insert(@, job_id, j)],
                     Some(job_id), Some(Event("FullyApproved", j, None)), FALSE)
    ELSE Outcome(s, None, None, FALSE)

(* state_errored that links the attempt it replaces without the attempts
   before that one *)
state_errored_last_only(s, job_id, errs, utc_now) ==
  LET next_attempt == utc_now + RetryBackoff
      errored == IF Has(s.errored, job_id)
                   THEN Some(map_state(s.errored[job_id],
                               [prev |-> s.errored[job_id].state.prev,
                                prev_attempt |->
                                  Some([s.errored[job_id].state
                                          EXCEPT !.prev_attempt = None]),
                                next_attempt |-> next_attempt,
                                errs |-> errs]))
                   ELSE None
      approved_ == IF Has(s.approved, job_id)
                     THEN Some(map_state(s.approved[job_id],
                                  [prev |-> s.approved[job_id].state,
                                   prev_attempt |-> None,
                                   next_attempt |-> next_attempt,
                                   errs |-> errs]))
                     ELSE None
      removed == [s EXCEPT !.errored = Remove(@, job_id),
                           !.approved = Remove(@, job_id)]
      found == IF errored # None THEN errored ELSE approved_
  IN  IF found # None
        THEN IF Len(flatten_errors(found[1])) > PoisonThreshold
               THEN Outcome(removed, Some(job_id), None, TRUE)
               ELSE Outcome([removed EXCEPT
                               !.errored = Insert(@, job_id, found[1])],
                            Some(job_id),
                            Some(Event("Errored", found[1], None)), FALSE)
        ELSE Outcome(removed, None, None, FALSE)

state_errored(s, job_id, errs, utc_now) ==
  LET next_attempt == utc_now + RetryBackoff
      errored == IF Has(s.errored, job_id)
                   THEN LET e == s.errored[job_id].state
                        IN  Some(map_state(s.errored[job_id],
                                  [prev |-> e.prev,
                                   prev_attempt |-> Some(e),
                                   next_attempt |-> next_attempt,
                                   errs |-> errs]))
                   ELSE None
      approved_ == IF Has(s.approved, job_id)
                     THEN Some(map_state(s.approved[job_id],
                                  [prev |-> s.approved[job_id].state,
                                   prev_attempt |-> None,
                                   next_attempt |-> next_attempt,
                                   errs |-> errs]))
                     ELSE None
      removed == [s EXCEPT !.errored = Remove(@, job_id),
                           !.approved = Remove(@, job_id)]
      found == IF errored # None THEN errored ELSE approved_
  IN  IF found # None
        THEN IF Len(flatten_errors(found[1])) > PoisonThreshold
               THEN Outcome(removed, Some(job_id), None, TRUE)
               ELSE Outcome([removed EXCEPT
                               !.errored = Insert(@, job_id, found[1])],
                            Some(job_id),
                            Some(Event("Errored", found[1], None)), FALSE)
        ELSE Outcome(removed, None, None, FALSE)

state_poisoned(s, job_id) ==
  IF Has(s.errored, job_id)
    THEN LET j == map_state(s.errored[job_id],
                            [prev |-> s.errored[job_id].state])
         IN  Outcome([s EXCEPT !.errored = Remove(@, job_id),
                               !.poison = Insert(@, job_id, j)],
                     Some(job_id), Some(Event("Poisoned", j, None)), FALSE)
    ELSE Outcome(s, None, None, FALSE)

(* state_done that also takes the job from the poison bucket *)
state_done_from_poison(s, job_id) ==
  LET retried == IF Has(s.errored, job_id)
                   THEN Some(map_state(s.errored[job_id],
                               [variant |-> "SucceededAfterRetry",
                                inner |-> s.errored[job_id].state]))
                   ELSE None
      succeeded == IF Has(s.approved, job_id)
                     THEN Some(map_state(s.approved[job_id],
                                 [variant |-> "Succeeded",
                                  inner |-> s.approved[job_id].state]))
                     ELSE None
      poisoned == IF Has(s.poison, job_id)
                    THEN Some(map_state(s.poison[job_id],
                                [variant |-> "SucceededAfterRetry",
                                 inner |-> s.poison[job_id].state.prev]))
                    ELSE None
      removed == [s EXCEPT !.errored = Remove(@, job_id),
                           !.approved = Remove(@, job_id),
                           !.poison = Remove(@, job_id)]
      found == IF succeeded # None THEN succeeded
               ELSE IF retried # None THEN retried ELSE poisoned
  IN  IF found # None
        THEN Outcome([removed EXCEPT !.done = Insert(@, job_id, found[1])],
                     Some(job_id), Some(Event("Done", found[1], None)), FALSE)
        ELSE Outcome(removed, None, None, FALSE)

state_done(s, job_id) ==
  LET retried == IF Has(s.errored, job_id)
                   THEN Some(map_state(s.errored[job_id],
                               [variant |-> "SucceededAfterRetry",
                                inner |-> s.errored[job_id].state]))
                   ELSE None
      succeeded == IF Has(s.approved, job_id)
                     THEN Some(map_state(s.approved[job_id],
                                 [variant |-> "Succeeded",
                                  inner |-> s.approved[job_id].state]))
                     ELSE None
      removed == [s EXCEPT !.errored = Remove(@, job_id),
                           !.approved = Remove(@, job_id)]
      found == IF succeeded # None THEN succeeded ELSE retried
  IN  IF found # None
        THEN Outcome([removed EXCEPT !.done = Insert(@, job_id, found[1])],
                     Some(job_id), Some(Event("Done", found[1], None)), FALSE)
        ELSE Outcome(removed, None, None, FALSE)

(* Store::get: the first bucket, in this order, that holds the id *)
get(s, job_id) ==
  IF Has(s.created, job_id) THEN Some(s.created[job_id])
  ELSE IF Has(s.approved, job_id) THEN Some(s.approved[job_id])
  ELSE IF Has(s.errored, job_id) THEN Some(s.errored[job_id])
  ELSE IF Has(s.poison, job_id) THEN Some(s.poison[job_id])
  ELSE IF Has(s.done, job_id) THEN Some(s.done[job_id])
  ELSE None

(* The store method a frame runs, applied to the store as it is now *)
Apply(op, id, arg, s, utc_now) ==
  CASE op = "create" -> create(s, id, arg.app, arg.command)
    [] op = "notified" -> notified(s, id, arg)
    [] op = "approved" -> approved(s, id, arg)
    [] op = "fully_approved" -> fully_approved(s, id)
    [] op = "state_errored" -> state_errored(s, id, arg, utc_now)
    [] op = "state_poisoned" -> state_poisoned(s, id)
    [] op = "state_done" -> state_done(s, id)

----------------------------------------------------------------------------
(* Threads: a stack of store-method frames each.

   pc of a frame:
     "open"            about to take the store mutex (self.open())
     "emit"            locked section done, holding the guard, inside emit
     "listeners_open"  guard dropped, about to take LISTENERS.open()
     "dispatch"        holding the LISTENERS guard, listener idx is next
     "poisoning"       state_errored, waiting for its call of state_poisoned
     "ret"             about to return ret to its caller                   *)

Frame(op, id, arg, by) ==
  [op |-> op, id |-> id, arg |-> arg, by |-> by, pc |-> "open",
   ev |-> None, idx |-> 0, ret |-> None, evs |-> <<>>]

Top(t) == stack[t][Len(stack[t])]
Idle(t) == stack[t] = <<>>
Below(t) == SubSeq(stack[t], 1, Len(stack[t]) - 1)

Closures == [op : {"fully_approved", "state_poisoned"}, id : JobIds]

ListenerKinds ==
  {"on_create_notify", "on_full_approval_change_state", "on_failure_poison",
   "on_approval"}

NoEffect == [call |-> None, spawn |-> None]

(* A listener that calls job_messenger.send_<kind> and does nothing else *)
Sends(kind) == [call |-> None, spawn |-> None, msg |-> Some(kind)]

(* hooks.rs / approval.rs: what one listener does with one event.  The result
   is the set of things it may do: a store call made directly from the
   listener, or a closure given to std::thread::spawn. *)
on_create_notify(ev) ==
  IF ev.type = "Created"
    THEN {[call |-> Some([op |-> "notified", id |-> ev.job.id, arg |-> m]),
           spawn |-> None,
           msg |-> Some("job_created")] : m \in MsgIds}  \* Ok(m)
         \cup {Sends("job_created")}                     \* Err
    ELSE {NoEffect}

(* on_full_approval_change_state without its is_empty() check *)
on_full_approval_unchecked(ev) ==
  IF ev.type = "Approved"
    THEN {[call |-> None,
           spawn |-> Some([op |-> "fully_approved", id |-> ev.job.id])]}
    ELSE {NoEffect}

on_full_approval_change_state(ev) ==
  IF ev.type = "Approved" /\ outstanding_approvers(ev.job) = <<>>
    THEN {[call |-> None,
           spawn |-> Some([op |-> "fully_approved", id |-> ev.job.id])]}
    ELSE {NoEffect}

on_failure_poison(ev) ==
  IF ev.type = "Errored" /\ Len(flatten_errors(ev.job)) > PoisonThreshold
    THEN {[call |-> None,
           spawn |-> Some([op |-> "state_poisoned", id |-> ev.job.id])]}
    ELSE {NoEffect}

(* approval.rs: calls fully_approved from inside the listener *)
on_approval(ev) ==
  IF ev.type = "Approved" /\ outstanding_approvers(ev.job) = <<>>
    THEN {[call |-> Some([op |-> "fully_approved", id |-> ev.job.id,
                          arg |-> None]),
           spawn |-> None]}
    ELSE {NoEffect}

(* The job the old-style executor is handed: Job { id, state, command, app } *)
ExecJob(id, state, command, app) ==
  [id |-> id, state |-> state, command |-> command, app |-> app]

(* Executor::schedule_exec: pushes the job when its state is Approved *)
schedule_exec(q, job) ==
  IF job.state.tag = "Approved" THEN Append(q, job) ELSE q

(* hooks.rs: on FullyApproved, state.job_executor.schedule_exec(&job) *)
on_full_approval_deploy(ev) ==
  IF ev.type = "FullyApproved"
    THEN {[call |-> None, spawn |-> None,
           work |-> Some(ExecJob(ev.job.id, [tag |-> "Approved"],
                                 ev.job.command, ev.job.app))]}
    ELSE {NoEffect}

(* hooks.rs: the listeners that only send a message *)
on_full_approval_notify(ev) ==
  IF ev.type = "FullyApproved" THEN {Sends("job_approved")} ELSE {NoEffect}

on_poison_notify(ev) ==
  IF ev.type = "Poisoned" THEN {Sends("job_failed")} ELSE {NoEffect}

on_done_notify(ev) ==
  IF ev.type = "Done" THEN {Sends("job_done")} ELSE {NoEffect}

Listener(kind, ev) ==
  CASE kind = "on_create_notify" -> on_create_notify(ev)
    [] kind = "on_full_approval_change_state" -> on_full_approval_change_state(ev)
    [] kind = "on_failure_poison" -> on_failure_poison(ev)
    [] kind = "on_approval" -> on_approval(ev)
    [] kind = "on_full_approval_notify" -> on_full_approval_notify(ev)
    [] kind = "on_full_approval_deploy" -> on_full_approval_deploy(ev)
    [] kind = "on_poison_notify" -> on_poison_notify(ev)
    [] kind = "on_done_notify" -> on_done_notify(ev)

(* The work a listener hands to the executor, if any *)
WorkOf(eff) == IF "work" \in DOMAIN eff THEN eff.work ELSE None

(* The message a listener asks the messenger to send, if any *)
MsgOf(eff) == IF "msg" \in DOMAIN eff THEN eff.msg ELSE None

(* job_messenger.send_<kind> has been called once more *)
Sent(s, kind) == [s EXCEPT ![kind] = @ + 1]

(* messaging.rs, job_created_msg: for every repo of the app,
   environments.find(name_eq).expect(..) panics when the repo has no
   environment of the command's name *)
HasEnv(repo, env_name) ==
  \E i \in 1..Len(repo.environments) : name_eq(repo.environments[i], env_name)

job_created_msg_panics(job) ==
  \E i \in 1..Len(job.app.repos) : ~HasEnv(job.app.repos[i], job.command.env_name)

(* Whether the listener panics on the event *)
Panics(kind, ev) ==
  /\ kind = "on_create_notify"
  /\ ev.type = "Created"
  /\ job_created_msg_panics(ev.job)

(* The hooks of hooks.rs, attached at startup in the order of the file *)
Hooks ==
  <<"on_create_notify", "on_full_approval_change_state",
    "on_full_approval_notify", "on_full_approval_deploy",
    "on_failure_poison", "on_poison_notify", "on_done_notify">>

(* emit without its drop(lock): the guard lives until emit returns *)
emit_keeps_lock(holder) == holder

(* EmitEvent::emit, first statement: drop(lock) *)
emit_drop(holder) == NoThread

(* A MutexGuard that is still alive when its function returns or unwinds
   is dropped there. *)
ReleasedBy(t, lock) == IF lock = t THEN NoThread ELSE lock

(* The locked section of frame f, run by thread t on top of the frames
   below: self.open(), the mutation, and what the method does next. *)
LockedSection(t, below, f) ==
  LET o == Apply(f.op, f.id, f.arg, store, now)
      g == [f EXCEPT !.ret = o.ret, !.ev = o.ev]
  IN  /\ store_lock = NoThread
      /\ store' = o.store
      /\ IF o.ev # None
           THEN /\ store_lock' = t
                /\ stack' = [stack EXCEPT ![t] =
                               Append(below, [g EXCEPT !.pc = "emit"])]
           ELSE /\ store_lock' = NoThread
                /\ stack' = [stack EXCEPT ![t] =
                     IF o.poisons
                       THEN below \o <<[g EXCEPT !.pc = "poisoning"],
                                       Frame("state_poisoned", f.id, None, "store")>>
                       ELSE Append(below, [g EXCEPT !.pc = "ret"])]

(* lazy_static initial values of the executor and of the git client *)
WorkerNew ==
  [pc |-> "get_work", job |-> None, ix |-> 0, step |-> "none",
   attempted |-> <<>>, ops |-> <<>>, up |-> None, result |-> None,
   results |-> <<>>, errs |-> <<>>]

(* LocalClient::homedir, a path: the sequence of its components *)
Home == <<"home">>

(* A request thread that handles no request *)
ReqIdle == [pc |-> "idle"]

(* job::Messenger: the messages it can be asked to send *)
MsgKinds == {"job_created", "job_approved", "job_failed", "job_done"}
NothingSent == [k \in MsgKinds |-> 0]

(* An empty access_reps.json, no thread in register or get *)
TokensNew ==
  [file |-> <<>>,
   thread |-> [t \in Threads |-> [pc |-> "idle", reps |-> <<>>,
                                  rep |-> None, got |-> None]]]

(* No call of get_all *)
ReadingIdle == [pc |-> "idle", jobs |-> <<>>, had |-> {}]

(* Barrier::new(n): n threads must wait on it before any is released *)
BarrierNew(n) == [n |-> n, waiting |-> {}, released |-> FALSE]

(* std::sync::Mutex::new(v), and what each thread does with it *)
MutexNew(v) ==
  [data |-> v, holder |-> NoThread, poisoned |-> FALSE,
   thread |-> [t \in Threads |-> [pc |-> "idle", seen |-> None]]]

GitIdle == [pc |-> "idle", current_branch |-> None, calls |-> <<>>]

Init ==
  /\ store = StoreDataNew
  /\ store_lock = NoThread
  /\ LISTENERS = <<>>
  /\ listeners_lock = NoThread
  /\ issued = {}
  /\ stack = [t \in Threads |-> <<>>]
  /\ spawned = [c \in Closures |-> 0]
  /\ now = 0
  /\ QUEUE = <<>>
  /\ JOB_QUEUE = <<>>
  /\ worker = WorkerNew
  /\ git_lock = NoThread
  /\ workdir = Home
  /\ git = [t \in Threads |-> GitIdle]
  /\ req = [t \in Threads |-> ReqIdle]
  /\ sent = NothingSent
  /\ mutex = MutexNew(12)
  /\ tokens = TokensNew
  /\ reading = [t \in Threads |-> ReadingIdle]
  /\ APP_INIT = BarrierNew(2)

(* A request thread calls a store method *)
Create(t) ==
  /\ Idle(t)
  /\ Cardinality(issued) < MaxJobs
  /\ \E app \in Apps, command \in Commands :
       LET id == Cardinality(issued) + 1
       IN  /\ LockedSection(t, <<>>, Frame("create", id,
                              [app |-> app, command |-> command], "api"))
           /\ issued' = issued \cup {id}
  /\ UNCHANGED <<LISTENERS, listeners_lock, spawned, now, exec_vars, git_vars, aux_vars>>

Notified(t) ==
  /\ Idle(t)
  /\ \E id \in JobIds, m \in MsgIds :
       LockedSection(t, <<>>, Frame("notified", id, m, "api"))
  /\ UNCHANGED <<LISTENERS, listeners_lock, issued, spawned, now, exec_vars, git_vars, aux_vars>>

Approved(t) ==
  /\ Idle(t)
  /\ \E id \in JobIds, user \in Users :
       /\ Has(store.created, id) =>
            Len(store.created[id].state.approved_by) < MaxApprovedBy
       /\ LockedSection(t, <<>>, Frame("approved", id, user, "api"))
  /\ UNCHANGED <<LISTENERS, listeners_lock, issued, spawned, now, exec_vars, git_vars, aux_vars>>

FullyApproved(t) ==
  /\ Idle(t)
  /\ \E id \in JobIds :
       LockedSection(t, <<>>, Frame("fully_approved", id, None, "api"))
  /\ UNCHANGED <<LISTENERS, listeners_lock, issued, spawned, now, exec_vars, git_vars, aux_vars>>

StateErrored(t) ==
  /\ Idle(t)
  /\ \E id \in JobIds, errs \in ErrLists :
       LockedSection(t, <<>>, Frame("state_errored", id, errs, "api"))
  /\ UNCHANGED <<LISTENERS, listeners_lock, issued, spawned, now, exec_vars, git_vars, aux_vars>>

StatePoisoned(t) ==
  /\ Idle(t)
  /\ \E id \in JobIds :
       LockedSection(t, <<>>, Frame("state_poisoned", id, None, "api"))
  /\ UNCHANGED <<LISTENERS, listeners_lock, issued, spawned, now, exec_vars, git_vars, aux_vars>>

StateDone(t) ==
  /\ Idle(t)
  /\ \E id \in JobIds :
       LockedSection(t, <<>>, Frame("state_done", id, None, "api"))
  /\ UNCHANGED <<LISTENERS, listeners_lock, issued, spawned, now, exec_vars, git_vars, aux_vars>>

(* attach_listener: LISTENERS.open().push(f) *)
AttachListener(t) ==
  /\ Idle(t)
  /\ listeners_lock = NoThread
  /\ Len(LISTENERS) < MaxListeners
  /\ \E f \in ListenerKinds : LISTENERS' = Append(LISTENERS, f)
  /\ UNCHANGED <<store, store_lock, listeners_lock, issued, stack, spawned, now, exec_vars, git_vars, aux_vars>>

(* A thread started by std::thread::spawn runs its closure *)
RunSpawned(t) ==
  /\ Idle(t)
  /\ \E c \in Closures :
       /\ spawned[c] > 0
       /\ spawned' = [spawned EXCEPT ![c] = @ - 1]
       /\ LockedSection(t, <<>>, Frame(c.op, c.id, None, "spawn"))
  /\ UNCHANGED <<LISTENERS, listeners_lock, issued, now, exec_vars, git_vars, aux_vars>>

(* A call made from inside a listener, or by state_errored, takes the lock *)
Open(t) ==
  /\ ~Idle(t)
  /\ Top(t).pc = "open"
  /\ LockedSection(t, Below(t), Top(t))
  /\ UNCHANGED <<LISTENERS, listeners_lock, issued, spawned, now, exec_vars, git_vars, aux_vars>>

(* emit: drop(lock) *)
EmitDrop(t) ==
  /\ ~Idle(t)
  /\ Top(t).pc = "emit"
  /\ store_lock' = emit_drop(store_lock)
  /\ stack' = [stack EXCEPT ![t][Len(stack[t])].pc = "listeners_open"]
  /\ UNCHANGED <<store, LISTENERS, listeners_lock, issued, spawned, now, exec_vars, git_vars, aux_vars>>

(* emit: LISTENERS.open() *)
ListenersOpen(t) ==
  /\ ~Idle(t)
  /\ Top(t).pc = "listeners_open"
  /\ listeners_lock = NoThread
  /\ listeners_lock' = t
  /\ stack' = [stack EXCEPT ![t][Len(stack[t])] =
                 [@ EXCEPT !.pc = "dispatch", !.idx = 1,
                           !.evs = Append(@, Top(t).ev[1].type)]]
  /\ UNCHANGED <<store, store_lock, LISTENERS, issued, spawned, now, exec_vars, git_vars, aux_vars>>

(* emit: LISTENERS.open() on a thread that already holds that mutex.
   std::sync::Mutex::lock then never returns: it deadlocks (no step is
   enabled for the thread) or it panics, which unwinds the whole thread
   and drops the guards it holds. *)
RelockPanic(t) ==
  /\ ~Idle(t)
  /\ Top(t).pc = "listeners_open"
  /\ listeners_lock = t
  /\ listeners_lock' = NoThread
  /\ store_lock' = ReleasedBy(t, store_lock)
  /\ stack' = [stack EXCEPT ![t] = <<>>]
  /\ UNCHANGED <<store, LISTENERS, issued, spawned, now, exec_vars, git_vars, aux_vars>>

(* emit: .iter().for_each(|f| f(ev)), one listener *)
Dispatch(t) ==
  /\ ~Idle(t)
  /\ Top(t).pc = "dispatch"
  /\ Top(t).idx <= Len(LISTENERS)
  /\ ~Panics(LISTENERS[Top(t).idx], Top(t).ev[1])
  /\ \E eff \in Listener(LISTENERS[Top(t).idx], Top(t).ev[1]) :
       LET advanced == [Top(t) EXCEPT !.idx = @ + 1]
       IN  /\ stack' = [stack EXCEPT ![t] =
                 IF eff.call # None
                   THEN Below(t) \o <<advanced,
                          Frame(eff.call[1].op, eff.call[1].id,
                                eff.call[1].arg, "listener")>>
                   ELSE Append(Below(t), advanced)]
           /\ spawned' = IF eff.spawn # None
                           THEN [spawned EXCEPT ![eff.spawn[1]] = @ + 1]
                           ELSE spawned
           /\ QUEUE' = IF WorkOf(eff) # None
                         THEN schedule_exec(QUEUE, WorkOf(eff)[1])
                         ELSE QUEUE
           /\ sent' = IF MsgOf(eff) # None
                        THEN Sent(sent, MsgOf(eff)[1])
                        ELSE sent
  /\ UNCHANGED <<store, store_lock, LISTENERS, listeners_lock, issued, now,
                 JOB_QUEUE, worker, git_vars, req, mutex, tokens, reading,
                 APP_INIT>>

(* emit: the listener panics.  Nothing catches it: the panic unwinds emit
   and the store method, dropping the LISTENERS guard, and ends the thread's
   request. *)
ListenerPanic(t) ==
  /\ ~Idle(t)
  /\ Top(t).pc = "dispatch"
  /\ Top(t).idx <= Len(LISTENERS)
  /\ Panics(LISTENERS[Top(t).idx], Top(t).ev[1])
  /\ listeners_lock' = ReleasedBy(t, listeners_lock)
  /\ store_lock' = ReleasedBy(t, store_lock)
  /\ stack' = [stack EXCEPT ![t] = <<>>]
  /\ UNCHANGED <<store, LISTENERS, issued, spawned, now, exec_vars, git_vars, aux_vars>>

(* emit returns: the LISTENERS guard is dropped *)
EndDispatch(t) ==
  /\ ~Idle(t)
  /\ Top(t).pc = "dispatch"
  /\ Top(t).idx > Len(LISTENERS)
  /\ listeners_lock' = NoThread
  /\ store_lock' = ReleasedBy(t, store_lock)
  /\ stack' = [stack EXCEPT ![t][Len(stack[t])].pc = "ret"]
  /\ UNCHANGED <<store, LISTENERS, issued, spawned, now, exec_vars, git_vars, aux_vars>>

(* A store method returns to its caller *)
Return(t) ==
  /\ ~Idle(t)
  /\ Top(t).pc = "ret"
  /\ stack' = [stack EXCEPT ![t] =
       IF Len(Below(t)) > 0 /\ Below(t)[Len(Below(t))].pc = "poisoning"
         THEN [Below(t) EXCEPT ![Len(Below(t))] =
                 [@ EXCEPT !.pc = "ret", !.evs = @ \o Top(t).evs]]
         ELSE Below(t)]
  /\ UNCHANGED <<store, store_lock, LISTENERS, listeners_lock, issued,
                 spawned, now, exec_vars, git_vars, aux_vars>>

Next ==
  \/ \E t \in Threads : Create(t)
  \/ \E t \in Threads : Notified(t)
  \/ \E t \in Threads : Approved(t)
  \/ \E t \in Threads : FullyApproved(t)
  \/ \E t \in Threads : StateErrored(t)
  \/ \E t \in Threads : StatePoisoned(t)
  \/ \E t \in Threads : StateDone(t)
  \/ \E t \in Threads : AttachListener(t)
  \/ \E t \in Threads : RunSpawned(t)
  \/ \E t \in Threads : Open(t)
  \/ \E t \in Threads : EmitDrop(t)
  \/ \E t \in Threads : ListenersOpen(t)
  \/ \E t \in Threads : RelockPanic(t)
  \/ \E t \in Threads : Dispatch(t)
  \/ \E t \in Threads : EndDispatch(t)
  \/ \E t \in Threads : Return(t)

Spec == Init /\ [][Next]_vars

----------------------------------------------------------------------------
(* The program as it is wired at startup: the hooks are attached before any
   request is served, and the store is called by the request handlers
   (create, approved), by the executor (state_errored, state_done) and by
   the hooks. *)

InitHooks ==
  /\ store = StoreDataNew
  /\ store_lock = NoThread
  /\ LISTENERS = Hooks
  /\ listeners_lock = NoThread
  /\ issued = {}
  /\ stack = [t \in Threads |-> <<>>]
  /\ spawned = [c \in Closures |-> 0]
  /\ now = 0
  /\ QUEUE = <<>>
  /\ JOB_QUEUE = <<>>
  /\ worker = WorkerNew
  /\ git_lock = NoThread
  /\ workdir = Home
  /\ git = [t \in Threads |-> GitIdle]
  /\ req = [t \in Threads |-> ReqIdle]
  /\ sent = NothingSent
  /\ mutex = MutexNew(12)
  /\ tokens = TokensNew
  /\ reading = [t \in Threads |-> ReadingIdle]
  /\ APP_INIT = BarrierNew(2)

(* A request thread handles /deploy: find_app, then jobs.create *)
SlashCommand(t) ==
  /\ Idle(t)
  /\ Cardinality(issued) < MaxJobs
  /\ \E r \in Requests :
       LET id == Cardinality(issued) + 1
       IN  /\ LockedSection(t, <<>>, Frame("create", id,
                              [app |-> r.app, command |-> r.command], "api"))
           /\ issued' = issued \cup {id}
  /\ UNCHANGED <<LISTENERS, listeners_lock, spawned, now, exec_vars, git_vars, aux_vars>>

NextHooks ==
  \/ \E t \in Threads : SlashCommand(t)
  \/ \E t \in Threads : Approved(t)
  \/ \E t \in Threads : StateErrored(t)
  \/ \E t \in Threads : StateDone(t)
  \/ \E t \in Threads : RunSpawned(t)
  \/ \E t \in Threads : Open(t)
  \/ \E t \in Threads : EmitDrop(t)
  \/ \E t \in Threads : ListenersOpen(t)
  \/ \E t \in Threads : Dispatch(t)
  \/ \E t \in Threads : ListenerPanic(t)
  \/ \E t \in Threads : EndDispatch(t)
  \/ \E t \in Threads : Return(t)

SpecHooks == InitHooks /\ [][NextHooks]_vars

----------------------------------------------------------------------------
(* The quorum hook alone, over apps whose repos list the same principals
   for the same environment *)

StagingBoth == [name |-> StagingName, base |-> "qa", target |-> "staging",
                users |-> <<U1, G1>>]

(* Two repos that both list U1 and G1 for staging *)
App5 == [name |-> "quux", team_id |-> "T1", notification_channel_id |-> "C1",
         repos |-> << [url |-> "r1", name |-> "r1",
                       environments |-> <<StagingBoth>>],
                      [url |-> "r2", name |-> "r2",
                       environments |-> <<StagingBoth>>] >>]

Cmd5 == [app_name |-> "quux", env_name |-> StagingTyped, user_id |-> "U1",
         team_id |-> "T1"]

QuorumRequests ==
  {[app |-> App5, command |-> Cmd5], [app |-> App1, command |-> Cmd1]}

InitQuorum ==
  /\ store = StoreDataNew
  /\ store_lock = NoThread
  /\ LISTENERS = <<"on_full_approval_change_state">>
  /\ listeners_lock = NoThread
  /\ issued = {}
  /\ stack = [t \in Threads |-> <<>>]
  /\ spawned = [c \in Closures |-> 0]
  /\ now = 0
  /\ QUEUE = <<>>
  /\ JOB_QUEUE = <<>>
  /\ worker = WorkerNew
  /\ git_lock = NoThread
  /\ workdir = Home
  /\ git = [t \in Threads |-> GitIdle]
  /\ req = [t \in Threads |-> ReqIdle]
  /\ sent = NothingSent
  /\ mutex = MutexNew(12)
  /\ tokens = TokensNew
  /\ reading = [t \in Threads |-> ReadingIdle]
  /\ APP_INIT = BarrierNew(2)

QuorumCommand(t) ==
  /\ Idle(t)
  /\ Cardinality(issued) < MaxJobs
  /\ \E r \in QuorumRequests :
       LET id == Cardinality(issued) + 1
       IN  /\ LockedSection(t, <<>>, Frame("create", id,
                              [app |-> r.app, command |-> r.command], "api"))
           /\ issued' = issued \cup {id}
  /\ UNCHANGED <<LISTENERS, listeners_lock, spawned, now, exec_vars, git_vars, aux_vars>>

NextQuorum ==
  \/ \E t \in Threads : QuorumCommand(t)
  \/ \E t \in Threads : Approved(t)
  \/ \E t \in Threads : RunSpawned(t)
  \/ \E t \in Threads : EmitDrop(t)
  \/ \E t \in Threads : ListenersOpen(t)
  \/ \E t \in Threads : Dispatch(t)
  \/ \E t \in Threads : EndDispatch(t)
  \/ \E t \in Threads : Return(t)

SpecQuorum == InitQuorum /\ [][NextQuorum]_vars

----------------------------------------------------------------------------
(* Store::get_all: five separate reads, each under its own self.open() *)

(* HashMap::values().cloned().collect(), here in the order of the keys *)
RECURSIVE values(_)
values(m) ==
  IF DOMAIN m = {}
    THEN <<>>
    ELSE LET k == CHOOSE x \in DOMAIN m : \A y \in DOMAIN m : x <= y
         IN  <<m[k]>> \o values(Remove(m, k))

(* The order in which get_all chains the buckets *)
ReadOrder == <<"created", "approved", "errored", "poison", "done">>

BucketAfter(b) ==
  LET i == CHOOSE j \in 1..Len(ReadOrder) : ReadOrder[j] = b
  IN  IF i < Len(ReadOrder) THEN ReadOrder[i + 1] ELSE "ret"

(* The ids of the jobs the store holds *)
StoredIds(s) == UNION {DOMAIN s[b] : b \in Buckets}

GetAllUnchanged ==
  <<store, store_lock, LISTENERS, listeners_lock, issued, stack, spawned, now,
    exec_vars, git_vars, req, sent, mutex, tokens, APP_INIT>>

(* get_all is called; had remembers the jobs the store holds at the call *)
GetAllStart(t) ==
  /\ Idle(t)
  /\ reading[t].pc = "idle"
  /\ reading' = [reading EXCEPT ![t] =
                   [pc |-> ReadOrder[1], jobs |-> <<>>,
                    had |-> StoredIds(store)]]
  /\ UNCHANGED GetAllUnchanged

(* get_all_new .. get_all_done: lock, copy the bucket's values, unlock *)
GetAllRead(t) ==
  /\ reading[t].pc \in Buckets
  /\ store_lock = NoThread
  /\ reading' = [reading EXCEPT ![t] =
                   [@ EXCEPT !.jobs = @ \o values(store[reading[t].pc]),
                             !.pc = BucketAfter(reading[t].pc)]]
  /\ UNCHANGED GetAllUnchanged

(* get_all returns the collected Vec *)
GetAllReturn(t) ==
  /\ reading[t].pc = "ret"
  /\ reading' = [reading EXCEPT ![t] = ReadingIdle]
  /\ UNCHANGED GetAllUnchanged

(* A thread inside get_all makes no other store call *)
NotReading(t) == reading[t].pc = "idle"

WriterCreate(t) == NotReading(t) /\ Create(t)

WriterFullyApproved(t) == NotReading(t) /\ FullyApproved(t)

WriterStateDone(t) == NotReading(t) /\ StateDone(t)

NextGetAll ==
  \/ \E t \in Threads : WriterCreate(t)
  \/ \E t \in Threads : WriterFullyApproved(t)
  \/ \E t \in Threads : WriterStateDone(t)
  \/ \E t \in Threads : EmitDrop(t)
  \/ \E t \in Threads : ListenersOpen(t)
  \/ \E t \in Threads : EndDispatch(t)
  \/ \E t \in Threads : Return(t)
  \/ \E t \in Threads : GetAllStart(t)
  \/ \E t \in Threads : GetAllRead(t)
  \/ \E t \in Threads : GetAllReturn(t)

SpecGetAll == Init /\ [][NextGetAll]_vars

----------------------------------------------------------------------------
(* Vocabulary of the properties *)

InBuckets(s, id) == {b \in Buckets : Has(s[b], id)}

Quiescent == \A t \in Threads : Idle(t)

(* The number of failed attempts an Errored state records: itself and the
   states linked through prev_attempt *)
RECURSIVE Attempts(_)
Attempts(e) == 1 + (IF e.prev_attempt # None THEN Attempts(e.prev_attempt[1]) ELSE 0)

(* Failed attempts of job id so far, as the store records them *)
Failures(s, id) ==
  IF Has(s.errored, id) THEN Attempts(s.errored[id].state) ELSE 0

(* Thread t runs the locked section of a store method in this step, and the
   frame that results from it *)
LockedStep(t) ==
  \/ Idle(t) /\ stack'[t] # <<>>
  \/ ~Idle(t) /\ Top(t).pc = "open" /\ stack'[t] # stack[t]

LockedFrame(t) == stack'[t][IF Idle(t) THEN 1 ELSE Len(stack[t])]

Mutations ==
  {"notified", "approved", "fully_approved", "state_errored",
   "state_poisoned", "state_done"}

(* The buckets a mutation looks its job up in *)
Required(op) ==
  CASE op \in {"notified", "approved", "fully_approved"} -> {"created"}
    [] op \in {"state_errored", "state_done"} -> {"approved", "errored"}
    [] op = "state_poisoned" -> {"errored"}

NoDuplicates(seq) ==
  \A i, j \in 1..Len(seq) : i # j => seq[i] # seq[j]

----------------------------------------------------------------------------
(* C1: once all store calls have returned, every id create has returned is
   a key of exactly one of the five maps. *)
C1_ExactlyOneBucket ==
  Quiescent => \A id \in issued : Cardinality(InBuckets(store, id)) = 1

(* C2: a state_errored call that is the job's 1st to 4th failure leaves the
   job in errored; the call that poisons is the 5th and no earlier one. *)
C2_FifthFailurePoisons ==
  [][\A t \in Threads :
       (LockedStep(t) /\ LockedFrame(t).op = "state_errored"
          /\ LockedFrame(t).ret # None)
       => LET id == LockedFrame(t).id
              nth == Failures(store, id) + 1
          IN  /\ nth <= 4 => Has(store'.errored, id)
              /\ LockedFrame(t).pc = "poisoning" => nth = 5]_vars

(* C3: a state_errored call that returns Some has dispatched exactly one
   event: Errored, with at most PoisonThreshold flattened attempts, or else
   Poisoned with the job in the poison bucket. *)
C3_ErroredOrPoisonedEvent ==
  \A t \in Threads : \A i \in 1..Len(stack[t]) :
    LET f == stack[t][i]
    IN  (f.op = "state_errored" /\ f.pc = "ret" /\ f.ret # None)
        => \/ /\ f.evs = <<"Errored">>
              /\ Len(flatten_errors(f.ev[1].job)) <= PoisonThreshold
           \/ /\ f.evs = <<"Poisoned">>
              /\ Has(store.poison, f.id)

(* C4: jobs are never deleted: once all store calls have returned, get
   finds every id create has returned. *)
C4_NeverDeleted ==
  Quiescent => \A id \in issued : get(store, id) # None

(* C5: Done and Poisoned are terminal: a job in done or poison stays there
   unchanged and in no other bucket, and a mutation called for it returns
   None without emitting. *)
C5_Terminal ==
  [][/\ \A id \in JobIds : \A b \in {"done", "poison"} :
          Has(store[b], id)
          => /\ InBuckets(store', id) = {b}
             /\ store'[b][id] = store[b][id]
     /\ \A t \in Threads :
          (LockedStep(t) /\ LockedFrame(t).op \in Mutations
             /\ InBuckets(store, LockedFrame(t).id) \cap {"done", "poison"} # {})
          => /\ LockedFrame(t).ret = None
             /\ LockedFrame(t).pc = "ret"]_vars

C5_Witness ==
  \E t \in Threads :
    /\ ~Idle(t)
    /\ Top(t).op = "state_done" /\ Top(t).pc = "ret" /\ Top(t).ret = None
    /\ Has(store.poison, Top(t).id)

(* C6: the bucket of a job changes only along create, Init->Approved,
   Approved->Errored, Errored->Poisoned, Approved->Done, Errored->Done. *)
AllowedEdges ==
  {<<{}, {"created"}>>, <<{"created"}, {"approved"}>>,
   <<{"approved"}, {"errored"}>>, <<{"errored"}, {"poison"}>>,
   <<{"approved"}, {"done"}>>, <<{"errored"}, {"done"}>>}

C6_OnlyListedEdges ==
  [][\A id \in JobIds :
       InBuckets(store', id) # InBuckets(store, id)
       => <<InBuckets(store, id), InBuckets(store', id)>> \in AllowedEdges]_vars

(* C7: approved_by of an Init job holds no principal twice. *)
C7_NoDuplicateApprovers ==
  \A id \in DOMAIN store.created :
    NoDuplicates(store.created[id].state.approved_by)

(* C8: a mutation whose job is in none of the buckets it looks in returns
   None, leaves the five buckets as they are and emits no event. *)
C8_MissingJobIsNoOp ==
  [][\A t \in Threads :
       (LockedStep(t) /\ LockedFrame(t).op \in Mutations
          /\ InBuckets(store, LockedFrame(t).id)
               \cap Required(LockedFrame(t).op) = {})
       => /\ LockedFrame(t).ret = None
          /\ LockedFrame(t).ev = None
          /\ LockedFrame(t).pc = "ret"
          /\ store' = store]_vars

C8_Witness ==
  \E t \in Threads :
    /\ ~Idle(t)
    /\ Top(t).op = "fully_approved" /\ Top(t).pc = "ret" /\ Top(t).ret = None
    /\ Has(store.approved, Top(t).id)

(* C9, as claimed: a store call made from inside a listener never waits for
   a mutex its own thread holds. *)
C9_NestedCallNeverSelfBlocked ==
  \A t \in Threads :
    (~Idle(t) /\ Top(t).by = "listener")
    => /\ Top(t).pc = "open" => store_lock # t
       /\ Top(t).pc = "listeners_open" => listeners_lock # t

(* C9, amended: a store call made from inside a listener is never kept from
   the store mutex by its own thread, and whoever holds the store mutex is
   about to drop it, so a call that emits nothing returns; a call that emits
   waits for the LISTENERS mutex while its own thread holds it. *)
C9_NestedCallBlocksOnlyInEmit ==
  /\ store_lock # NoThread => Top(store_lock).pc = "emit"
  /\ \A t \in Threads :
       (~Idle(t) /\ Top(t).by = "listener")
       => /\ Top(t).pc = "open" => store_lock # t
          /\ Top(t).pc = "listeners_open" => listeners_lock = t

C9_Witness ==
  \E t \in Threads :
    /\ ~Idle(t)
    /\ Top(t).by = "listener" /\ Top(t).op = "notified"
    /\ Top(t).pc = "ret" /\ Top(t).ret # None
    /\ listeners_lock = t

(* C10: while a thread is in emit past drop(lock), taking the LISTENERS
   mutex or running listeners, it does not hold the store mutex. *)
C10_NoStoreLockWhileDispatching ==
  \A t \in Threads :
    (~Idle(t) /\ Top(t).pc \in {"listeners_open", "dispatch"})
    => store_lock # t

C10_Witness ==
  \E t \in Threads :
    /\ ~Idle(t)
    /\ Top(t).op = "state_errored" /\ Top(t).pc = "dispatch"
    /\ Top(t).idx <= Len(LISTENERS)
    /\ store_lock # NoThread

----------------------------------------------------------------------------
(* The git client (git/impl/client.rs, git/impl/repo_context.rs) and the
   executor's worker (job/exec/impl.rs), which reports to the job queue
   (job/queue.rs).

   git[t].pc:
     "idle"      not using the client
     "repo"      inside StaticClient::repo, holding the GIT_CLIENT guard
     "live"      owns a RepoContext (which owns the guard)
     "dropping"  in Drop for RepoContext, past cd(homedir); the guard is
                 released when drop returns

   worker.pc:
     "get_work"  at the top of the worker loop
     "waiting"   in WORK_QUEUED.1.wait(lock)
     "sleep"     in sleep(time_til)
     "exec"      in exec, in the closure of repo ix at worker.step
     "set_state" errs collected, about to report to the job queue
     "panicked"  the thread has panicked                                     *)

WorkerThread == 1

store_vars ==
  <<store, store_lock, LISTENERS, listeners_lock, issued, stack, spawned>>

(* job::State of the job the executor works on *)
JobState(tag, attempts, next_attempt, errs) ==
  [tag |-> tag, attempts |-> attempts, next_attempt |-> next_attempt,
   errs |-> errs]

WorkQueued == JobState("WorkQueued", 0, 0, <<>>)
Done == JobState("Done", 0, 0, <<>>)

Cmd2 == [app_name |-> "bar", env_name |-> StagingTyped, user_id |-> "U1",
         team_id |-> "T1"]

(* The jobs work is made of *)
ExecStates ==
  {WorkQueued, JobState("Approved", 0, 0, <<>>),
   JobState("Errored", 1, ExecBackoff, <<"CommandFailed">>)}

ExecJobs ==
  {ExecJob(1, st, r.command, r.app) :
     st \in ExecStates,
     r \in Requests \cup {[app |-> App2, command |-> Cmd2]}}

RECURSIVE SeqsUpTo(_, _)
SeqsUpTo(S, n) ==
  IF n = 0 THEN {<<>>}
  ELSE SeqsUpTo(S, n - 1)
         \cup {Append(q, x) : q \in {r \in SeqsUpTo(S, n - 1) : Len(r) = n - 1},
                              x \in S}

WorkLists == SeqsUpTo(ExecJobs, MaxWork)

(* Result<(), git::Error> *)
Ok == [ok |-> TRUE, err |-> "none"]
Err(e) == [ok |-> FALSE, err |-> e]

(* RepoContext::upstream: format!("{}/{}", remote, branch.0) *)
upstream(remote, branch) == <<remote, "/", branch>>

(* StaticClient::repo, lock_discard_poison(&GIT_CLIENT) returning at once
   whoever holds the mutex *)
repo_lock_ignored(holder) == TRUE

(* StaticClient::repo, lock_discard_poison(&GIT_CLIENT): returns when the
   mutex is free *)
repo_may_lock(holder) == holder = NoThread

(* Drop for RepoContext leaving the working directory where it is *)
drop_stays(homedir, wd) == wd

(* Drop for RepoContext: c.cd(c.homedir.clone()) *)
drop_cd(homedir, wd) == homedir

(* exec: .find(|env| env.name_eq(&job.command.env_name)) *)
find_env(repo, env_name) ==
  LET found == Filter(LAMBDA env : name_eq(env, env_name), repo.environments)
  IN  IF found = <<>> THEN None ELSE Some(found[1])

(* get_work: the time until the work is ready *)
time_til(w, utc_now) ==
  IF w.state.tag = "Errored" /\ w.state.next_attempt > utc_now
    THEN w.state.next_attempt - utc_now
    ELSE 0

(* get_work that yields the work pushed first, whenever it is ready *)
get_work_first(q, utc_now) ==
  LET work == {i \in 1..Len(q) : q[i].state.tag \in {"WorkQueued", "Errored"}}
  IN  IF work = {} THEN None
      ELSE LET ix == CHOOSE i \in work : \A j \in work : i <= j
           IN  Some([ix |-> ix, dur |-> time_til(q[ix], utc_now)])

(* get_work: the index and delay of the work that is ready soonest, the
   earliest pushed among equals (sort_by_key is stable) *)
get_work(q, utc_now) ==
  LET work == {i \in 1..Len(q) : q[i].state.tag \in {"WorkQueued", "Errored"}}
  IN  IF work = {} THEN None
      ELSE LET ix == CHOOSE i \in work : \A j \in work :
                       \/ time_til(q[i], utc_now) < time_til(q[j], utc_now)
                       \/ /\ time_til(q[i], utc_now) = time_til(q[j], utc_now)
                          /\ i <= j
           IN  Some([ix |-> ix, dur |-> time_til(q[ix], utc_now)])

(* Vec::remove *)
RemoveAt(q, i) == SubSeq(q, 1, i - 1) \o SubSeq(q, i + 1, Len(q))

(* MemQueue::lookup *)
lookup(q, id) ==
  LET found == Filter(LAMBDA j : j.id = id, q)
  IN  IF found = <<>> THEN None ELSE Some(found[1])

(* MemQueue::set_state: the first job of that id gets the state *)
set_state(q, id, state) ==
  LET found == {i \in 1..Len(q) : q[i].id = id}
  IN  IF found = {} THEN q
      ELSE LET i == CHOOSE i \in found : \A j \in found : i <= j
           IN  [q EXCEPT ![i].state = state]

(* exec: .filter_map(|r| r.err()).collect() *)
Errs(results) ==
  LET failed == Filter(LAMBDA r : ~r.ok, results)
  IN  [i \in 1..Len(failed) |-> failed[i].err]

(* exec stopping at the first repo that fails *)
next_repo_until_err(ix, n, result) == IF result.ok THEN ix + 1 ELSE n + 1

(* exec: the iterator goes on to the next repo whatever the result *)
next_repo(ix, n, result) == ix + 1

(* exec: the closure of one repo has returned result *)
RepoDone(w, result) ==
  LET n == Len(w.job[1].app.repos)
      results == Append(w.results, result)
      ix == next_repo(w.ix, n, result)
  IN  IF ix > n
        THEN [w EXCEPT !.pc = "set_state", !.step = "none", !.ix = ix,
                       !.result = None, !.results = results,
                       !.errs = Errs(results)]
        ELSE [w EXCEPT !.step = "env", !.ix = ix, !.result = None,
                       !.results = results]

WorkerRepo == worker.job[1].app.repos[worker.ix]
WorkerEnv == find_env(WorkerRepo, worker.job[1].command.env_name)[1]
WorkerAt(step) == worker.pc = "exec" /\ worker.step = step

InitGit ==
  /\ store = StoreDataNew
  /\ store_lock = NoThread
  /\ LISTENERS = <<>>
  /\ listeners_lock = NoThread
  /\ issued = {}
  /\ stack = [t \in Threads |-> <<>>]
  /\ spawned = [c \in Closures |-> 0]
  /\ now = 0
  /\ QUEUE \in WorkLists
  /\ JOB_QUEUE = QUEUE
  /\ worker = WorkerNew
  /\ git_lock = NoThread
  /\ workdir = Home
  /\ git = [t \in Threads |-> GitIdle]
  /\ req = [t \in Threads |-> ReqIdle]
  /\ sent = NothingSent
  /\ mutex = MutexNew(12)
  /\ tokens = TokensNew
  /\ reading = [t \in Threads |-> ReadingIdle]
  /\ APP_INIT = BarrierNew(2)

(* worker: get_work() is Some((work, time_til)) *)
GetWork ==
  /\ worker.pc = "get_work"
  /\ get_work(QUEUE, now) # None
  /\ LET w == get_work(QUEUE, now)[1]
     IN  /\ QUEUE' = RemoveAt(QUEUE, w.ix)
         /\ worker' = [WorkerNew EXCEPT
                         !.pc = IF w.dur > 0 THEN "sleep" ELSE "exec",
                         !.job = Some(QUEUE[w.ix]), !.ix = 1, !.step = "env"]
  /\ UNCHANGED <<store_vars, now, JOB_QUEUE, git_vars, aux_vars>>

(* worker: get_work() is None; nothing in exec/impl.rs notifies the condvar *)
WaitForWork ==
  /\ worker.pc = "get_work"
  /\ get_work(QUEUE, now) = None
  /\ worker' = [worker EXCEPT !.pc = "waiting"]
  /\ UNCHANGED <<store_vars, now, QUEUE, JOB_QUEUE, git_vars, aux_vars>>

(* worker: sleep(time_til) *)
Sleep ==
  /\ worker.pc = "sleep"
  /\ now' = now + time_til(worker.job[1], now)
  /\ worker' = [worker EXCEPT !.pc = "exec"]
  /\ UNCHANGED <<store_vars, QUEUE, JOB_QUEUE, git_vars, aux_vars>>

(* exec: the environment of the repo is found *)
FindEnv ==
  /\ WorkerAt("env")
  /\ find_env(WorkerRepo, worker.job[1].command.env_name) # None
  /\ worker' = [worker EXCEPT !.step = "repo", !.ops = <<>>, !.up = None]
  /\ UNCHANGED <<store_vars, now, QUEUE, JOB_QUEUE, git_vars, aux_vars>>

(* exec: .expect("Environment was already matched against command") *)
ExecPanic ==
  /\ WorkerAt("env")
  /\ find_env(WorkerRepo, worker.job[1].command.env_name) = None
  /\ worker' = [worker EXCEPT !.pc = "panicked"]
  /\ UNCHANGED <<store_vars, now, QUEUE, JOB_QUEUE, git_vars, aux_vars>>

(* StaticClient::repo: lock_discard_poison(&GIT_CLIENT) *)
RepoLock(t) ==
  /\ git[t].pc = "idle"
  /\ t = WorkerThread => WorkerAt("repo")
  /\ repo_may_lock(git_lock)
  /\ git_lock' = t
  /\ git' = [git EXCEPT ![t].pc = "repo"]
  /\ worker' = IF t = WorkerThread
                 THEN [worker EXCEPT !.attempted = Append(@, WorkerRepo.url)]
                 ELSE worker
  /\ UNCHANGED <<store_vars, now, QUEUE, JOB_QUEUE, workdir, aux_vars>>

(* StaticClient::repo: the configuration and the clone succeed; git.cd(dir)
   and RepoContext::new(dir, lock), which cannot fail, are one step *)
RepoCloned(t) ==
  /\ git[t].pc = "repo"
  /\ workdir' = Append(Home, IF t = WorkerThread
                                THEN worker.job[1].app.name ELSE "dir")
  /\ git' = [git EXCEPT ![t] = [pc |-> "live", current_branch |-> None,
                                calls |-> <<>>]]
  /\ worker' = IF t = WorkerThread
                 THEN [worker EXCEPT !.step = "fetch_all"]
                 ELSE worker
  /\ UNCHANGED <<store_vars, now, QUEUE, JOB_QUEUE, git_lock, aux_vars>>

(* StaticClient::repo failing after git.cd(dir), with the guard kept *)
RepoFailed_after_cd(t) ==
  /\ git[t].pc = "repo"
  /\ workdir' = Append(Home, "dir")
  /\ git' = [git EXCEPT ![t].pc = "idle"]
  /\ worker' = IF t = WorkerThread
                 THEN RepoDone(worker, Err("CommandFailed"))
                 ELSE worker
  /\ UNCHANGED <<store_vars, now, QUEUE, JOB_QUEUE, git_lock, aux_vars>>

(* StaticClient::repo: a git command fails; repo returns Err and the guard
   is dropped *)
RepoFailed(t) ==
  /\ git[t].pc = "repo"
  /\ git_lock' = ReleasedBy(t, git_lock)
  /\ git' = [git EXCEPT ![t].pc = "idle"]
  /\ worker' = IF t = WorkerThread
                 THEN RepoDone(worker, Err("CommandFailed"))
                 ELSE worker
  /\ UNCHANGED <<store_vars, now, QUEUE, JOB_QUEUE, workdir, aux_vars>>

(* One call of the pipeline without the ? operator: the first error is
   remembered and the next call is made all the same *)
Pipeline_unchecked(op, arg, result, next) ==
  worker' = [worker EXCEPT
               !.ops = Append(@, [op |-> op, arg |-> arg]),
               !.step = next,
               !.result = IF @ # None THEN @
                          ELSE IF ~result.ok THEN Some(result)
                          ELSE IF next = "drop" THEN Some(Ok) ELSE None]

(* One call of the pipeline: it is logged, and on Err the ? operator leaves
   the closure with that error *)
Pipeline(op, arg, result, next) ==
  worker' = [worker EXCEPT
               !.ops = Append(@, [op |-> op, arg |-> arg]),
               !.step = IF result.ok THEN next ELSE "drop",
               !.result = IF ~result.ok THEN Some(result)
                          ELSE IF next = "drop" THEN Some(Ok) ELSE None]

GitResults == {Ok, Err("CommandFailed")}

(* exec: repo.fetch_all()? *)
FetchAll ==
  /\ WorkerAt("fetch_all")
  /\ \E r \in GitResults : Pipeline("fetch_all", None, r, "switch")
  /\ UNCHANGED <<store_vars, now, QUEUE, JOB_QUEUE, git_vars, aux_vars>>

(* exec: repo.switch(&env.base)?; switch records the branch when git
   succeeds *)
Switch ==
  /\ WorkerAt("switch")
  /\ \E r \in GitResults :
       /\ Pipeline("switch", Some(WorkerEnv.base), r, "update_branch")
       /\ git' = IF r.ok
                   THEN [git EXCEPT ![WorkerThread].current_branch =
                                      Some(WorkerEnv.base)]
                   ELSE git
  /\ UNCHANGED <<store_vars, now, QUEUE, JOB_QUEUE, git_lock, workdir, aux_vars>>

(* exec: repo.update_branch()?; NoBranchToUpdate when no branch is current *)
UpdateBranch ==
  /\ WorkerAt("update_branch")
  /\ \E r \in IF git[WorkerThread].current_branch = None
                THEN {Err("NoBranchToUpdate")} ELSE GitResults :
       Pipeline("update_branch", None, r, "upstream")
  /\ UNCHANGED <<store_vars, now, QUEUE, JOB_QUEUE, git_vars, aux_vars>>

(* exec: repo.upstream(&env.target) *)
Upstream ==
  /\ WorkerAt("upstream")
  /\ \E r \in GitResults :
       Pipeline("upstream", Some(WorkerEnv.target), r, "merge")
  /\ UNCHANGED <<store_vars, now, QUEUE, JOB_QUEUE, git_vars, aux_vars>>

(* exec: .and_then(|b| repo.merge(&b))? with b the upstream of env.target *)
Merge ==
  /\ WorkerAt("merge")
  /\ \E r \in GitResults :
       Pipeline("merge", Some(upstream("origin", WorkerEnv.target)), r, "push")
  /\ UNCHANGED <<store_vars, now, QUEUE, JOB_QUEUE, git_vars, aux_vars>>

(* exec: repo.push(), which pushes the current branch; its result is the
   result of the closure *)
Push ==
  /\ WorkerAt("push")
  /\ \E r \in GitResults :
       Pipeline("push", git[WorkerThread].current_branch, r, "drop")
  /\ UNCHANGED <<store_vars, now, QUEUE, JOB_QUEUE, git_vars, aux_vars>>

(* Drop for RepoContext: cd(homedir) *)
DropCd(t) ==
  /\ git[t].pc = "live"
  /\ t = WorkerThread => WorkerAt("drop")
  /\ workdir' = drop_cd(Home, workdir)
  /\ git' = [git EXCEPT ![t].pc = "dropping"]
  /\ UNCHANGED <<store_vars, now, exec_vars, git_lock, aux_vars>>

(* Drop for RepoContext returns: the guard it owns is dropped *)
DropUnlock(t) ==
  /\ git[t].pc = "dropping"
  /\ git_lock' = ReleasedBy(t, git_lock)
  /\ git' = [git EXCEPT ![t] = GitIdle]
  /\ worker' = IF t = WorkerThread
                 THEN RepoDone(worker, worker.result[1])
                 ELSE worker
  /\ UNCHANGED <<store_vars, now, QUEUE, JOB_QUEUE, workdir, aux_vars>>

(* exec: job_q.set_state(&job.id, Done) or (.., Errored { .. }) *)
SetState ==
  /\ worker.pc = "set_state"
  /\ LET job == worker.job[1]
         attempts == IF job.state.tag = "Errored"
                       THEN job.state.attempts + 1 ELSE 1
         new_state == IF worker.errs = <<>>
                        THEN Done
                        ELSE JobState("Errored", attempts, now + ExecBackoff,
                                      worker.errs)
     IN  JOB_QUEUE' = set_state(JOB_QUEUE, job.id, new_state)
  /\ worker' = [worker EXCEPT !.pc = "get_work", !.step = "reported"]
  /\ UNCHANGED <<store_vars, now, QUEUE, git_vars, aux_vars>>

NextGit ==
  \/ GetWork
  \/ WaitForWork
  \/ Sleep
  \/ FindEnv
  \/ ExecPanic
  \/ \E t \in Threads : RepoLock(t)
  \/ \E t \in Threads : RepoCloned(t)
  \/ \E t \in Threads : RepoFailed(t)
  \/ FetchAll
  \/ Switch
  \/ UpdateBranch
  \/ Upstream
  \/ Merge
  \/ Push
  \/ \E t \in Threads : DropCd(t)
  \/ \E t \in Threads : DropUnlock(t)
  \/ SetState

SpecGit == InitGit /\ [][NextGit]_vars

----------------------------------------------------------------------------
(* RepoContext used freely: a thread that holds a context calls switch and
   update_branch in any order, git answering each command with Ok or Err.
   calls is the log of the calls on the context: the git commands each one
   ran and its result. *)

CtxBranches == {"qa", "staging"}

CtxCall(op, arg, cmds, result) ==
  [op |-> op, arg |-> arg, cmds |-> cmds, result |-> result]

GitSwitch(branch) == <<"switch", branch>>
GitConfigRemote(branch) == <<"config", "--get", <<"branch.", branch, ".remote">>>>
GitResetHard(up) == <<"reset", up, "--hard">>

(* switch that records the branch whatever git answered *)
switch_records_always(ctx, branch, res) ==
  [ctx EXCEPT !.current_branch = Some(branch),
              !.calls = Append(@, CtxCall("switch", Some(branch),
                                          <<GitSwitch(branch)>>, res))]

(* RepoContext::switch, git answering res *)
switch(ctx, branch, res) ==
  [ctx EXCEPT !.current_branch = IF res.ok THEN Some(branch) ELSE @,
              !.calls = Append(@, CtxCall("switch", Some(branch),
                                          <<GitSwitch(branch)>>, res))]

(* RepoContext::update_branch, git answering config with up_res (the remote
   is origin) and reset with reset_res *)
update_branch(ctx, up_res, reset_res) ==
  LET cur_branch == ctx.current_branch
      call == IF cur_branch = None
                THEN CtxCall("update_branch", None, <<>>,
                             Err("NoBranchToUpdate"))
              ELSE IF ~up_res.ok
                THEN CtxCall("update_branch", None,
                             <<GitConfigRemote(cur_branch[1])>>, up_res)
              ELSE CtxCall("update_branch", None,
                           <<GitConfigRemote(cur_branch[1]),
                             GitResetHard(upstream("origin", cur_branch[1]))>>,
                           reset_res)
  IN  [ctx EXCEPT !.calls = Append(@, call)]

CtxSwitch(t) ==
  /\ t # WorkerThread
  /\ git[t].pc = "live"
  /\ Len(git[t].calls) < MaxCalls
  /\ \E branch \in CtxBranches, res \in GitResults :
       git' = [git EXCEPT ![t] = switch(@, branch, res)]
  /\ UNCHANGED <<store_vars, now, exec_vars, git_lock, workdir, aux_vars>>

CtxUpdateBranch(t) ==
  /\ t # WorkerThread
  /\ git[t].pc = "live"
  /\ Len(git[t].calls) < MaxCalls
  /\ \E up_res \in GitResults, reset_res \in GitResults :
       git' = [git EXCEPT ![t] = update_branch(@, up_res, reset_res)]
  /\ UNCHANGED <<store_vars, now, exec_vars, git_lock, workdir, aux_vars>>

NextRepo ==
  \/ \E t \in Threads : RepoLock(t)
  \/ \E t \in Threads : RepoCloned(t)
  \/ \E t \in Threads : RepoFailed(t)
  \/ \E t \in Threads : CtxSwitch(t)
  \/ \E t \in Threads : CtxUpdateBranch(t)
  \/ \E t \in Threads : DropCd(t)
  \/ \E t \in Threads : DropUnlock(t)

SpecRepo == Init /\ [][NextRepo]_vars

----------------------------------------------------------------------------
(* slack/tokens.rs: TokenMgr over the token file.  register is tokens()
   followed by set_tokens(), two accesses of the file.

   pc of a thread: "idle", "register" (it has read the file and will write
   it back with rep pushed).                                              *)

AccessReps ==
  [access_token : {"xoxb-1", "xoxb-2"}, team : [id : {"T1", "T2"}]]

(* TokenMgr::register: reps.push(rep.clone()) *)
TokenMgr_register(reps, rep) == Append(reps, rep)

(* TokenMgr::get: the access token of the first rep of the team *)
TokenMgr_get(reps, team_id) ==
  LET found == {i \in 1..Len(reps) : reps[i].team.id = team_id}
  IN  IF found = {} THEN None
      ELSE Some(reps[CHOOSE i \in found : \A j \in found : i <= j]
                  .access_token)

TokensUnchanged ==
  <<store_vars, now, exec_vars, git_vars, req, sent, mutex, reading, APP_INIT>>

(* register: let mut reps = self.tokens() *)
RegisterTokens(t) ==
  /\ tokens.thread[t].pc = "idle"
  /\ Len(tokens.file) < MaxTokens
  /\ \E rep \in AccessReps :
       tokens' = [tokens EXCEPT !.thread[t] =
                    [pc |-> "register", reps |-> tokens.file,
                     rep |-> Some(rep), got |-> None]]
  /\ UNCHANGED TokensUnchanged

(* register: reps.push(rep.clone()); self.set_tokens(reps) *)
RegisterSetTokens(t) ==
  /\ tokens.thread[t].pc = "register"
  /\ tokens' = [tokens EXCEPT
                  !.file = TokenMgr_register(tokens.thread[t].reps,
                                             tokens.thread[t].rep[1]),
                  !.thread[t].pc = "idle"]
  /\ UNCHANGED TokensUnchanged

(* TokenMgr::get(team_id) *)
TokenGet(t) ==
  /\ tokens.thread[t].pc = "idle"
  /\ \E team_id \in {"T1", "T2"} :
       tokens' = [tokens EXCEPT !.thread[t].got =
                    Some([team_id |-> team_id,
                          token |-> TokenMgr_get(tokens.file, team_id)])]
  /\ UNCHANGED TokensUnchanged

NextTokens ==
  \/ \E t \in Threads : RegisterTokens(t)
  \/ \E t \in Threads : RegisterSetTokens(t)
  \/ \E t \in Threads : TokenGet(t)

SpecTokens == Init /\ [][NextTokens]_vars

----------------------------------------------------------------------------
(* The executor with work arriving while the worker runs, under fair
   scheduling of the worker and of every user of the git client. *)

(* Executor::schedule_exec, called by on_full_approval_deploy: the push is
   all it does, WORK_QUEUED is not notified *)
(* The worker keeping the guard of QUEUE while it sleeps *)
queue_held_asleep(w) == w.pc = "sleep"

(* The worker holds the guard of QUEUE: only inside get_work, whose guard q
   is a local that is dropped when it returns, and get_work is one step *)
queue_held(w) == w.pc = "in get_work"

(* schedule_exec: lock_discard_poison(&QUEUE), push *)
ScheduleExec ==
  /\ ~queue_held(worker)
  /\ Len(QUEUE) < MaxQueue
  /\ \E job \in ExecJobs : QUEUE' = schedule_exec(QUEUE, job)
  /\ UNCHANGED <<store_vars, now, JOB_QUEUE, worker, git_vars, aux_vars>>

(* Condvar::wait may return without a notification (spurious wakeup) *)
SpuriousWakeup ==
  /\ worker.pc = "waiting"
  /\ worker' = [worker EXCEPT !.pc = "get_work"]
  /\ UNCHANGED <<store_vars, now, QUEUE, JOB_QUEUE, git_vars, aux_vars>>

(* The steps of the worker thread *)
WorkerStep ==
  \/ GetWork
  \/ WaitForWork
  \/ Sleep
  \/ FindEnv
  \/ ExecPanic
  \/ RepoLock(WorkerThread)
  \/ RepoCloned(WorkerThread)
  \/ RepoFailed(WorkerThread)
  \/ FetchAll
  \/ Switch
  \/ UpdateBranch
  \/ Upstream
  \/ Merge
  \/ Push
  \/ DropCd(WorkerThread)
  \/ DropUnlock(WorkerThread)
  \/ SetState

(* The steps by which a thread inside the git client leaves it *)
GitReturns(t) ==
  RepoCloned(t) \/ RepoFailed(t) \/ DropCd(t) \/ DropUnlock(t)

NextExec ==
  \/ NextGit
  \/ ScheduleExec
  \/ SpuriousWakeup

FairExec ==
  /\ SF_vars(WorkerStep)
  /\ \A t \in Threads : WF_vars(GitReturns(t))

SpecExec == InitGit /\ [][NextExec]_vars /\ FairExec

----------------------------------------------------------------------------
(* The worker over work queues of several items: fresh work, retries due at
   different times, and jobs in a state that is no work.  The job at
   position i has id i. *)

RetryStates ==
  {JobState("Errored", 1, ExecBackoff, <<"CommandFailed">>),
   JobState("Errored", 2, ExecBackoff + 3, <<"CommandFailed">>)}

WorkStates == {WorkQueued, JobState("Approved", 0, 0, <<>>)} \cup RetryStates

WorkQueue(states, r) ==
  [i \in 1..Len(states) |-> ExecJob(i, states[i], r.command, r.app)]

WorkQueues ==
  {WorkQueue(states, r) :
     states \in SeqsUpTo(WorkStates, MaxQueue), r \in Requests}

InitWork ==
  /\ store = StoreDataNew
  /\ store_lock = NoThread
  /\ LISTENERS = <<>>
  /\ listeners_lock = NoThread
  /\ issued = {}
  /\ stack = [t \in Threads |-> <<>>]
  /\ spawned = [c \in Closures |-> 0]
  /\ now \in {0, ExecBackoff + 1}
  /\ QUEUE \in WorkQueues
  /\ JOB_QUEUE = QUEUE
  /\ worker = WorkerNew
  /\ git_lock = NoThread
  /\ workdir = Home
  /\ git = [t \in Threads |-> GitIdle]
  /\ req = [t \in Threads |-> ReqIdle]
  /\ sent = NothingSent
  /\ mutex = MutexNew(12)
  /\ tokens = TokensNew
  /\ reading = [t \in Threads |-> ReadingIdle]
  /\ APP_INIT = BarrierNew(2)

SpecWork == InitWork /\ [][NextGit]_vars

----------------------------------------------------------------------------
(* The HTTP handlers of main.rs (filters::handle_command, handle_event,
   handle_approval) over the job queue of job/queue.rs.  Every call of a
   job_queue method locks the queue for that call alone; a handler is a
   sequence of such calls.

   req[t].pc:
     "idle"       no request
     "queue"      /deploy parsed, find_app done and no existing job found,
                  about to queue
     "send"       job queued, about to send_job_created
     "lookup"     handle_approval found an outstanding approver
     "set_state"  new_state computed, about to store it
     "approved"   no approver outstanding, about to move the job to Approved
     "reply"      the handler is done and replies                          *)

(* job::State of the jobs in the queue *)
StateInitiated == [tag |-> "Initiated"]
StateNotified(msg_id, approved_by) ==
  [tag |-> "Notified", msg_id |-> msg_id, approved_by |-> approved_by]
StateApproved(msg_id, approved_by) ==
  [tag |-> "Approved", msg_id |-> msg_id, approved_by |-> approved_by]

(* An environment that a single user and a user group have to approve *)
StagingGroup == [name |-> StagingName, base |-> "qa", target |-> "staging",
                 users |-> <<U1, G1>>]

App4 == [name |-> "qux", team_id |-> "T1", notification_channel_id |-> "C1",
         repos |-> << [url |-> "r", name |-> "r",
                       environments |-> <<StagingGroup>>] >>]

Cmd4 == [app_name |-> "qux", env_name |-> StagingTyped, user_id |-> "U1",
         team_id |-> "T1"]

(* An environment whose only approver is group G1, of which two members
   are asked for *)
G1Two == [kind |-> "Group", id |-> "G1", approver |-> FALSE, min_approvers |-> 2]

StagingGroupOnly == [name |-> StagingName, base |-> "qa", target |-> "staging",
                     users |-> <<G1Two>>]

App6 == [name |-> "corge", team_id |-> "T1", notification_channel_id |-> "C1",
         repos |-> << [url |-> "r", name |-> "r",
                       environments |-> <<StagingGroupOnly>>] >>]

Cmd6 == [app_name |-> "corge", env_name |-> StagingTyped, user_id |-> "U1",
         team_id |-> "T1"]

(* The /deploy commands main.rs is sent, each with the app find_app gives *)
MainRequests ==
  {[app |-> App4, command |-> Cmd4], [app |-> App6, command |-> Cmd6]}

(* The users who react, the reactions they add, and who is in group G1 *)
ReactingUsers == {"U1", "U3", "U9"}
Reactions == {"+1", "eyes"}
GroupMembers == [g \in {"G1"} |-> {"U3"}]

(* slack_groups.expand(group_id).unwrap_or_default(): the members, or
   nothing when the call fails *)
ExpandResults == {GroupMembers, [g \in {"G1"} |-> {}]}

(* The id slack gives the message sent for a job; ts is unique per message *)
MsgIdOf(job) == [channel |-> job.app.notification_channel_id, ts |-> job.id]

(* handle_command: loose_eq *)
loose_eq(a, b) == to_lowercase(trim(a)) = to_lowercase(trim(b))

(* handle_command: job_queue.cloned().into_iter().find(..) *)
existing(q, app, cmd) ==
  LET found == Filter(LAMBDA j : j.app = app
                          /\ loose_eq(j.command.env_name, cmd.env_name), q)
  IN  IF found = <<>> THEN None ELSE Some(found[1])

(* MemQueue::queue: push_back of a job in state Initiated *)
queue(q, id, app, command) ==
  Append(q, ExecJob(id, StateInitiated, command, app))

(* handle_event: the predicate of find, for jobs of any state *)
event_matches_unnotified(j, team_id, channel, ts) ==
  /\ j.app.team_id = team_id
  /\ j.state.tag = "Notified" =>
       j.state.msg_id.channel = channel /\ j.state.msg_id.ts = ts

(* handle_event: the predicate of find: a Notified job of the team whose
   msg_id is the message reacted to *)
event_matches(j, team_id, channel, ts) ==
  /\ j.state.tag = "Notified"
  /\ j.app.team_id = team_id
  /\ j.state.msg_id.channel = channel /\ j.state.msg_id.ts = ts

(* handle_event: matched_job *)
matched_job(q, ev) ==
  LET found == Filter(LAMBDA j : event_matches(j, ev.team_id, ev.channel,
                                               ev.ts), q)
  IN  IF found # <<>> /\ ev.reaction = "+1" THEN Some(found[1]) ELSE None

(* The approvers a queued job still waits for; a job that was not notified
   has no approvals yet *)
(* outstanding approvers with a group outstanding until min_approvers
   entries of approved_by are the group *)
need_approvers_counting(job) ==
  LET approved_by == IF "approved_by" \in DOMAIN job.state
                       THEN job.state.approved_by ELSE <<>>
      times(u) == Cardinality({i \in 1..Len(approved_by) : approved_by[i] = u})
      needed(u) == IF u.kind = "Group" THEN u.min_approvers ELSE 1
  IN  dedup(Filter(LAMBDA u : times(u) < needed(u),
                   users(job.app, job.command.env_name)))

need_approvers(job) ==
  outstanding_approvers(
    [job EXCEPT !.state = IF "approved_by" \in DOMAIN job.state
                            THEN job.state
                            ELSE [approved_by |-> <<>>]])

(* handle_approval taking every reacting user for the principal *)
is_anyone(u, user_id, expand) == TRUE

(* handle_approval: the predicate of need_approvers.iter().find(..) *)
is_outstanding(u, user_id, expand) ==
  IF u.kind = "User" THEN u.id = user_id ELSE user_id \in expand[u.id]

(* handle_approval: outstanding_approver *)
outstanding_approver(job, user_id, expand) ==
  LET found == Filter(LAMBDA u : is_outstanding(u, user_id, expand),
                      need_approvers(job))
  IN  IF found = <<>> THEN None ELSE Some(found[1])

(* handle_approval: approved_by.push(user) when the state is Notified *)
push_approver(state, user) ==
  IF state.tag = "Notified"
    THEN [state EXCEPT !.approved_by = Append(@, user)]
    ELSE state

(* handle_command: send_job_created(..).map(|msg_id| set_state(Notified)) *)
after_send(q, job, ok) ==
  IF ok THEN set_state(q, job.id, StateNotified(MsgIdOf(job), <<>>)) ELSE q

Reply(t, handler, outcome, id, by) ==
  req' = [req EXCEPT ![t] = [pc |-> "reply", handler |-> handler,
                             outcome |-> outcome, id |-> id, by |-> by]]

MainUnchanged ==
  <<store_vars, now, worker, git_vars, mutex, tokens, reading, APP_INIT>>

(* POST api/v1/event: the reaction_added events that arrive; they are
   reactions to the one message with ts 1 *)
Events ==
  [team_id : {"T1"}, user : ReactingUsers, reaction : Reactions,
   channel : {"C1"}, ts : {1}]

(* POST api/v1/command, handle_command: the command is parsed, find_app is
   Ok and an existing job of the app and environment is found *)
CommandRejected(t) ==
  /\ req[t].pc = "idle"
  /\ \E r \in MainRequests :
       /\ existing(JOB_QUEUE, r.app, r.command) # None
       /\ Reply(t, "command", "JobAlreadyQueued",
                existing(JOB_QUEUE, r.app, r.command)[1].id, r.command.user_id)
  /\ UNCHANGED <<MainUnchanged, QUEUE, JOB_QUEUE, sent>>

(* handle_command: no existing job is found *)
CommandAccepted(t) ==
  /\ req[t].pc = "idle"
  /\ Len(JOB_QUEUE) + Cardinality({u \in Threads : req[u].pc = "queue"})
       < MaxQueued
  /\ \E r \in MainRequests :
       /\ existing(JOB_QUEUE, r.app, r.command) = None
       /\ req' = [req EXCEPT ![t] = [pc |-> "queue", app |-> r.app,
                                     command |-> r.command]]
  /\ UNCHANGED <<MainUnchanged, QUEUE, JOB_QUEUE, sent>>

(* handle_command: job_queue.queue(app, cmd) *)
CommandQueue(t) ==
  /\ req[t].pc = "queue"
  /\ LET id == Len(JOB_QUEUE) + 1
     IN  /\ JOB_QUEUE' = queue(JOB_QUEUE, id, req[t].app, req[t].command)
         /\ req' = [req EXCEPT ![t] =
                      [pc |-> "send",
                       job |-> ExecJob(id, StateInitiated, req[t].command,
                                       req[t].app)]]
  /\ UNCHANGED <<MainUnchanged, QUEUE, sent>>

(* handle_command: send_job_created, and set_state(Notified) when it is Ok *)
CommandSend(t) ==
  /\ req[t].pc = "send"
  /\ \E ok \in BOOLEAN :
       /\ sent' = Sent(sent, "job_created")
       /\ JOB_QUEUE' = after_send(JOB_QUEUE, req[t].job, ok)
       /\ Reply(t, "command", IF ok THEN "Ok" ELSE "SlackApi", req[t].job.id,
                req[t].job.command.user_id)
  /\ UNCHANGED <<MainUnchanged, QUEUE>>

(* POST api/v1/event, handle_event: no job matches the message and the
   reaction *)
EventUnmatched(t) ==
  /\ req[t].pc = "idle"
  /\ \E ev \in Events :
       /\ matched_job(JOB_QUEUE, ev) = None
       /\ Reply(t, "event", "unmatched", 0, ev.user)
  /\ UNCHANGED <<MainUnchanged, QUEUE, JOB_QUEUE, sent>>

(* handle_event, handle_approval: a job matches; its outstanding approvers
   are searched for the reacting user *)
EventMatched(t) ==
  /\ req[t].pc = "idle"
  /\ \E ev \in Events, expand \in ExpandResults :
       /\ matched_job(JOB_QUEUE, ev) # None
       /\ LET job == matched_job(JOB_QUEUE, ev)[1]
              user == outstanding_approver(job, ev.user, expand)
          IN  IF user = None
                THEN Reply(t, "event", "not an approver", job.id, ev.user)
                ELSE req' = [req EXCEPT ![t] =
                               [pc |-> "lookup", job |-> job, user |-> user[1],
                                by |-> ev.user]]
  /\ UNCHANGED <<MainUnchanged, QUEUE, JOB_QUEUE, sent>>

(* handle_approval: job_queue.lookup(&job.id).expect(..).state, and the push *)
ApprovalLookup(t) ==
  /\ req[t].pc = "lookup"
  /\ req' = [req EXCEPT ![t] =
               [pc |-> "set_state", job |-> req[t].job, by |-> req[t].by,
                new_state |-> push_approver(
                                lookup(JOB_QUEUE, req[t].job.id)[1].state,
                                req[t].user)]]
  /\ UNCHANGED <<MainUnchanged, QUEUE, JOB_QUEUE, sent>>

(* handle_approval: job_queue.set_state(&job.id, new_state) *)
ApprovalSetState(t) ==
  /\ req[t].pc = "set_state"
  /\ JOB_QUEUE' = set_state(JOB_QUEUE, req[t].job.id, req[t].new_state)
  /\ LET job == lookup(JOB_QUEUE', req[t].job.id)[1]
     IN  IF need_approvers(job) = <<>>
           THEN req' = [req EXCEPT ![t].pc = "approved"]
           ELSE Reply(t, "event", "still need approvers", job.id, req[t].by)
  /\ UNCHANGED <<MainUnchanged, QUEUE, sent>>

(* handle_approval: set_state(Approved), send_job_approved, schedule_exec *)
ApprovalFully(t) ==
  /\ req[t].pc = "approved"
  /\ req[t].new_state.tag = "Notified"
  /\ LET state == StateApproved(req[t].new_state.msg_id,
                                req[t].new_state.approved_by)
     IN  /\ JOB_QUEUE' = set_state(JOB_QUEUE, req[t].job.id, state)
         /\ QUEUE' = schedule_exec(QUEUE, lookup(JOB_QUEUE', req[t].job.id)[1])
  /\ sent' = Sent(sent, "job_approved")
  /\ Reply(t, "event", "fully approved", req[t].job.id, req[t].by)
  /\ UNCHANGED MainUnchanged

(* handle_approval: new_state is not Notified, because another request has
   moved the job on since it was matched: unreachable!() panics *)
ApprovalUnreachable(t) ==
  /\ req[t].pc = "approved"
  /\ req[t].new_state.tag # "Notified"
  /\ req' = [req EXCEPT ![t] = ReqIdle]
  /\ UNCHANGED <<MainUnchanged, QUEUE, JOB_QUEUE, sent>>

(* The handler returns its reply *)
Replied(t) ==
  /\ req[t].pc = "reply"
  /\ req' = [req EXCEPT ![t] = ReqIdle]
  /\ UNCHANGED <<MainUnchanged, QUEUE, JOB_QUEUE, sent>>

NextMain ==
  \/ \E t \in Threads : CommandRejected(t)
  \/ \E t \in Threads : CommandAccepted(t)
  \/ \E t \in Threads : CommandQueue(t)
  \/ \E t \in Threads : CommandSend(t)
  \/ \E t \in Threads : EventUnmatched(t)
  \/ \E t \in Threads : EventMatched(t)
  \/ \E t \in Threads : ApprovalLookup(t)
  \/ \E t \in Threads : ApprovalSetState(t)
  \/ \E t \in Threads : ApprovalFully(t)
  \/ \E t \in Threads : ApprovalUnreachable(t)
  \/ \E t \in Threads : Replied(t)

SpecMain == Init /\ [][NextMain]_vars

----------------------------------------------------------------------------
(* The store under a wall clock that moves.  Utc::now() is
   SystemTime::now(): a later reading is greater when time has passed,
   equal within the resolution of the clock, and smaller when the system
   clock was set back in between. *)

Tick ==
  /\ now < MaxTime
  /\ now' = now + 1
  /\ UNCHANGED <<store_vars, exec_vars, git_vars, aux_vars>>

ClockSetBack ==
  /\ \E earlier \in 0..(now - 1) : now' = earlier
  /\ UNCHANGED <<store_vars, exec_vars, git_vars, aux_vars>>

NextClock ==
  \/ \E t \in Threads : Create(t)
  \/ \E t \in Threads : FullyApproved(t)
  \/ \E t \in Threads : StateErrored(t)
  \/ \E t \in Threads : StateDone(t)
  \/ \E t \in Threads : Open(t)
  \/ \E t \in Threads : EmitDrop(t)
  \/ \E t \in Threads : ListenersOpen(t)
  \/ \E t \in Threads : EndDispatch(t)
  \/ \E t \in Threads : Return(t)
  \/ Tick
  \/ ClockSetBack

SpecClock == Init /\ [][NextClock]_vars

----------------------------------------------------------------------------
(* mutex_extra.rs: a Mutex<i32> shared by threads that lock it through
   lock_discard_poison, store to it, unlock it, or panic holding it.

   pc of a thread: "idle", "holding" (it has the guard), "panicked".     *)

MutexValues == {12, 13, 14}

(* Mutex::lock on a free mutex: the guard, inside Err when the mutex is
   poisoned *)
lock(m) == [ok |-> ~m.poisoned, guard |-> m.data]

(* m.lock().unwrap(): panics on a poisoned mutex *)
lock_unwrap(m) == IF lock(m).ok THEN Some(lock(m).guard) ELSE None

(* m.lock().map_err(|e| e.into_inner()).unwrap_or_else(|lock| lock): the
   guard either way; None stands for a panic *)
lock_discard_poison(m) == Some(lock(m).guard)

MutexUnchanged ==
  <<store_vars, now, exec_vars, git_vars, req, sent, tokens, reading, APP_INIT>>

MutexLock(t) ==
  /\ mutex.thread[t].pc = "idle"
  /\ mutex.holder = NoThread
  /\ LET got == lock_discard_poison(mutex)
     IN  mutex' = IF got # None
                    THEN [mutex EXCEPT !.holder = t,
                                       !.thread[t] = [pc |-> "holding",
                                                      seen |-> got]]
                    ELSE [mutex EXCEPT !.thread[t].pc = "panicked"]
  /\ UNCHANGED MutexUnchanged

(* *guard = v *)
MutexStore(t) ==
  /\ mutex.thread[t].pc = "holding"
  /\ \E v \in MutexValues \ {mutex.data} :
       mutex' = [mutex EXCEPT !.data = v]
  /\ UNCHANGED MutexUnchanged

(* The guard is dropped *)
MutexUnlock(t) ==
  /\ mutex.thread[t].pc = "holding"
  /\ mutex' = [mutex EXCEPT !.holder = NoThread, !.thread[t].pc = "idle"]
  /\ UNCHANGED MutexUnchanged

(* panic!() with the guard alive: unwinding drops the guard, which poisons
   the mutex and unlocks it *)
MutexPanic(t) ==
  /\ mutex.thread[t].pc = "holding"
  /\ mutex' = [mutex EXCEPT !.holder = NoThread, !.poisoned = TRUE,
                            !.thread[t].pc = "panicked"]
  /\ UNCHANGED MutexUnchanged

NextMutex ==
  \/ \E t \in Threads : MutexLock(t)
  \/ \E t \in Threads : MutexStore(t)
  \/ \E t \in Threads : MutexUnlock(t)
  \/ \E t \in Threads : MutexPanic(t)

SpecMutex == Init /\ [][NextMutex]_vars

----------------------------------------------------------------------------
(* Vocabulary of the event-bus properties *)

(* Thread t's dispatch, which is running in its top frame, is over after
   this step *)
DispatchEnds(t) ==
  \/ Len(stack'[t]) < Len(stack[t])
  \/ /\ Len(stack'[t]) = Len(stack[t])
     /\ stack'[t][Len(stack[t])].pc # "dispatch"

(* The listeners the dispatch of frame f has invoked so far *)
Invoked(f) == SubSeq(LISTENERS, 1, f.idx - 1)

(* The place of an event in the order of its job's mutations *)
Version(ev) ==
  CASE ev.type = "Created" -> 0
    [] ev.type = "Approved" -> Len(ev.job.state.approved_by)
    [] ev.type = "FullyApproved" -> MaxApprovedBy + 1
    [] ev.type = "Errored" -> MaxApprovedBy + 1 + Attempts(ev.job.state)
    [] OTHER -> MaxApprovedBy + PoisonThreshold + 3

(* Thread u has mutated the store for an event it has not begun to
   dispatch *)
Undispatched(u) == ~Idle(u) /\ Top(u).pc \in {"emit", "listeners_open"}

(* The Init job an Approved job embeds *)
InitSnapshot(job) == map_state(job, job.state.prev)

IsIn(x, seq) == \E i \in 1..Len(seq) : seq[i] = x

----------------------------------------------------------------------------
(* C11: when a listener that is not the last one panics on an event, the
   dispatch of that event goes on with the listener attached after it. *)
C11_PanicDoesNotStopDispatch ==
  [][\A t \in Threads :
       (/\ ~Idle(t)
        /\ Top(t).pc = "dispatch"
        /\ Top(t).idx < Len(LISTENERS)
        /\ Panics(LISTENERS[Top(t).idx], Top(t).ev[1])
        /\ stack'[t] # stack[t])
       => /\ Len(stack'[t]) >= Len(stack[t])
          /\ stack'[t][Len(stack[t])].pc = "dispatch"
          /\ stack'[t][Len(stack[t])].ev = Top(t).ev
          /\ stack'[t][Len(stack[t])].idx = Top(t).idx + 1]_vars

(* C12: when the dispatch of an event is over, every attached listener has
   been invoked for it, once each and in the order of attachment, by the
   thread that called the store method. *)
C12_EveryListenerOnceInOrder ==
  [][\A t \in Threads :
       (~Idle(t) /\ Top(t).pc = "dispatch" /\ DispatchEnds(t))
       => Invoked(Top(t)) = LISTENERS]_vars

(* C13: a thread begins to dispatch an event of a job only when no other
   thread still has an earlier mutation of that job to dispatch. *)
C13_DispatchInMutationOrder ==
  [][\A t \in Threads :
       (/\ ~Idle(t)
        /\ Top(t).pc = "listeners_open"
        /\ Len(stack'[t]) = Len(stack[t])
        /\ stack'[t][Len(stack[t])].pc = "dispatch")
       => \A u \in Threads \ {t} :
            (Undispatched(u) /\ Top(u).ev[1].job.id = Top(t).ev[1].job.id)
            => Version(Top(u).ev[1]) > Version(Top(t).ev[1])]_vars

(* C14: every job in the approved bucket has no outstanding approvers,
   computed from the approved_by of the Init state it embeds. *)
C14_ApprovedHaveQuorum ==
  \A id \in DOMAIN store.approved :
    outstanding_approvers(InitSnapshot(store.approved[id])) = <<>>

C14_Witness ==
  \E id \in DOMAIN store.approved :
    Len(store.approved[id].state.prev.approved_by) = 2

(* C15: outstanding_approvers of an Init job holds a single user only if
   the user is an approver, and holds every group of the roster that has
   not approved. *)
C15_OnlyApproversOutstanding ==
  \A id \in DOMAIN store.created :
    LET job == store.created[id]
        out == outstanding_approvers(job)
        roster == users(job.app, job.command.env_name)
    IN  /\ \A i \in 1..Len(out) : out[i].kind = "User" => out[i].approver
        /\ \A i \in 1..Len(roster) :
             (roster[i].kind = "Group"
                /\ ~IsIn(roster[i], job.state.approved_by))
             => IsIn(roster[i], out)

----------------------------------------------------------------------------
(* Vocabulary of the git and executor properties *)

(* The threads that own a RepoContext, one being dropped included *)
Owners == {t \in Threads : git[t].pc \in {"live", "dropping"}}

(* The threads inside Client::repo past its lock, or owning a RepoContext *)
Holders == {t \in Threads : git[t].pc \in {"repo", "live", "dropping"}}

(* The calls the pipeline of one repo is to make, in order *)
PipelineOf(env) ==
  << [op |-> "fetch_all", arg |-> None],
     [op |-> "switch", arg |-> Some(env.base)],
     [op |-> "update_branch", arg |-> None],
     [op |-> "switch", arg |-> Some(env.target)],
     [op |-> "update_branch", arg |-> None],
     [op |-> "merge", arg |-> Some(env.base)],
     [op |-> "push", arg |-> Some(env.target)] >>

(* exec has reported the outcome of worker.job and is back in the loop *)
Reported == worker.pc = "get_work" /\ worker.step = "reported"

Failed(results) == {i \in 1..Len(results) : ~results[i].ok}

----------------------------------------------------------------------------
(* C16: at most one RepoContext exists at a time, and no thread is inside
   Client::repo past the lock while another thread owns a RepoContext. *)
C16_OneRepoContext ==
  \A t \in Owners : Holders = {t}

C16_Witness ==
  /\ WorkerAt("repo")
  /\ git[WorkerThread].pc = "idle"
  /\ \E u \in Threads : git[u].pc = "live"

(* C17: when no RepoContext is live the working directory is the home
   directory, and it is the home directory whenever the git mutex is free. *)
C17_HomeWhenNoContext ==
  /\ (\A t \in Threads : git[t].pc # "live") => workdir = Home
  /\ git_lock = NoThread => workdir = Home

C17_Witness ==
  \E t \in Threads :
    git[t].pc = "dropping" /\ git_lock = t /\ workdir = Home

(* C18: when no step of a repo fails, the calls made for it are fetch_all,
   switch(base), update_branch, switch(target), update_branch, merge(base),
   push, with target the branch pushed. *)
C18_PipelineOrder ==
  (WorkerAt("drop") /\ worker.result = Some(Ok))
  => worker.ops = PipelineOf(WorkerEnv)

(* C19: when exec has been through the repos of a job, it has called
   Client::repo for every repo, in configured order, whichever of them
   failed, and the error list holds one error for each repo that failed. *)
C19_EveryRepoAttempted ==
  worker.pc = "set_state"
  => LET repos == worker.job[1].app.repos
     IN  /\ worker.attempted = [i \in 1..Len(repos) |-> repos[i].url]
         /\ Len(worker.results) = Len(repos)
         /\ Len(worker.errs) = Cardinality(Failed(worker.results))

C19_Witness ==
  /\ worker.pc = "set_state"
  /\ Len(worker.results) = 2
  /\ ~worker.results[1].ok
  /\ worker.results[2].ok
  /\ Len(worker.errs) = 1

(* C20: when exec has reported, a job none of whose repos failed is Done,
   and a job with failed repos is Errored with those errors and is in the
   work queue again for another attempt. *)
C20_DoneOrRetried ==
  Reported
  => LET job == worker.job[1]
         stored == lookup(JOB_QUEUE, job.id)[1]
     IN  IF worker.errs = <<>>
           THEN stored.state.tag = "Done"
           ELSE /\ stored.state.tag = "Errored"
                /\ stored.state.errs = worker.errs
                /\ \E i \in 1..Len(QUEUE) :
                     /\ QUEUE[i].id = job.id
                     /\ QUEUE[i].state.tag = "Errored"

(* C21: under fair scheduling and git operations that return, every job
   schedule_exec has put on the work queue is eventually taken by the worker
   and run to the point where exec reports its outcome. *)
C21_ScheduledIsExecuted ==
  \A job \in ExecJobs :
    (job.state.tag = "Approved" /\ IsIn(job, QUEUE))
    ~> (worker.job = Some(job) /\ Reported)

(* C22: a push onto the work queue signals the worker: a worker that is
   waiting on the condition variable is not waiting after the push. *)
C22_PushSignalsWorker ==
  [][(Len(QUEUE') > Len(QUEUE) /\ worker.pc = "waiting")
     => worker'.pc # "waiting"]_vars

(* C23: when the state_errored call of the failure that exhausts the
   retries returns, the job is in Poisoned, send_job_failed has been called
   exactly once for it and no item for it is on the work queue. *)
C23_PoisonedOnceNoRetry ==
  \A t \in Threads : \A i \in 1..Len(stack[t]) :
    LET f == stack[t][i]
    IN  (f.op = "state_errored" /\ f.pc = "ret" /\ f.ret # None /\ f.ev = None)
        => /\ Has(store.poison, f.id)
           /\ sent["job_failed"] = 1
           /\ \A k \in 1..Len(QUEUE) : QUEUE[k].id # f.id

----------------------------------------------------------------------------
(* Vocabulary of the handler properties *)

(* A queued job that is neither Done nor Poisoned *)
NonTerminal(job) == job.state.tag \notin {"Done", "Poisoned"}

SameDeployment(a, b) ==
  a.app = b.app /\ loose_eq(a.command.env_name, b.command.env_name)

(* Some handle_command has queued the job and not yet sent its message *)
BeingSent(job) ==
  \E t \in Threads : req[t].pc = "send" /\ req[t].job.id = job.id

(* The user matches no approver the job still waits for: no outstanding
   single user and no member of an outstanding group *)
NotOutstanding(job, user_id) ==
  \A i \in 1..Len(need_approvers(job)) :
    LET u == need_approvers(job)[i]
    IN  IF u.kind = "User" THEN u.id # user_id
        ELSE user_id \notin GroupMembers[u.id]

(* The id of the job whose message the request in r reacts to, 0 when r is
   no reaction to the message of a job *)
ReactionTo(r) ==
  IF r.pc = "lookup" THEN r.job.id
  ELSE IF r.pc = "reply" /\ r.handler = "event" THEN r.id
  ELSE 0

(* C24: no two jobs in the queue that are neither Done nor Poisoned are for
   the same app and environment. *)
C24_OneJobPerEnvironment ==
  \A i, j \in 1..Len(JOB_QUEUE) :
    (i # j /\ SameDeployment(JOB_QUEUE[i], JOB_QUEUE[j]))
    => ~(NonTerminal(JOB_QUEUE[i]) /\ NonTerminal(JOB_QUEUE[j]))

(* C29: when send_job_created fails the job stays queued in its initial
   state without a message id, and a job in that state whose message is not
   about to be sent is changed by no step: it never becomes Notified and no
   reaction is ever matched to it. *)
C29_FailedSendStaysInit ==
  [][/\ \A t \in Threads :
          (req[t].pc = "send" /\ req'[t].pc = "reply"
             /\ req'[t].outcome = "SlackApi")
          => lookup(JOB_QUEUE', req[t].job.id) = Some(req[t].job)
     /\ \A i \in 1..Len(JOB_QUEUE) :
          (JOB_QUEUE[i].state = StateInitiated /\ ~BeingSent(JOB_QUEUE[i]))
          => /\ JOB_QUEUE'[i] = JOB_QUEUE[i]
             /\ \A t \in Threads : ReactionTo(req'[t]) # JOB_QUEUE[i].id]_vars

C29_Witness ==
  /\ JOB_QUEUE # <<>>
  /\ JOB_QUEUE[1].state = StateInitiated
  /\ ~BeingSent(JOB_QUEUE[1])
  /\ sent["job_created"] = 1
  /\ \E t \in Threads :
       /\ req[t].pc = "reply" /\ req[t].handler = "event"
       /\ req[t].outcome = "unmatched" /\ req[t].by = "U1"

(* C30: the request that handles a reaction of a user who matches no
   outstanding principal of the job ends there: the queue and the job in it,
   the work queue and the messages sent are unchanged. *)
C30_StrangerChangesNothing ==
  [][\A t \in Threads :
       (/\ req[t].pc = "idle"
        /\ ReactionTo(req'[t]) # 0
        /\ NotOutstanding(lookup(JOB_QUEUE, ReactionTo(req'[t]))[1],
                          req'[t].by))
       => /\ req'[t].pc = "reply"
          /\ JOB_QUEUE' = JOB_QUEUE
          /\ QUEUE' = QUEUE
          /\ sent' = sent]_vars

C30_Witness ==
  \E t \in Threads :
    /\ req[t].pc = "reply" /\ req[t].outcome = "not an approver"
    /\ req[t].by = "U9"
    /\ lookup(JOB_QUEUE, req[t].id)[1].state.tag = "Notified"

(* The buckets of jobs that were fully approved, and the Init state a job
   of bucket b embeds *)
PostApproval == {"approved", "errored", "poison", "done"}

Snapshot(b, job) ==
  CASE b = "approved" -> job.state.prev
    [] b = "errored" -> job.state.prev.prev
    [] b = "poison" -> job.state.prev.prev.prev
    [] b = "done" -> IF job.state.variant = "Succeeded"
                       THEN job.state.inner.prev
                       ELSE job.state.inner.prev.prev

(* The job keeps its id, app and command and gets new_state *)
Becomes(old, new, new_state) == new = map_state(old, new_state)

(* C25: in every step of the store, a job that moves from created to
   approved embeds its Init state as prev; the Init state a fully approved
   job embeds is the same before and after the step whatever buckets it is
   in; a job that state_errored finds in errored and leaves there links
   the state it replaces as prev_attempt and so records one attempt more; a job that
   moves from approved to errored links no earlier attempt and holds the
   Approved state; a job that moves to poison holds the Errored state it
   had; a job that moves to done holds the Approved state as Succeeded or
   the Errored state as SucceededAfterRetry. *)
C25_HistoryPreserved ==
  [][\A id \in JobIds :
       /\ (Has(store.created, id) /\ Has(store'.approved, id))
          => Becomes(store.created[id], store'.approved[id],
                     [prev |-> store.created[id].state])
       /\ \A b, c \in PostApproval :
            (Has(store[b], id) /\ Has(store'[c], id))
            => Snapshot(c, store'[c][id]) = Snapshot(b, store[b][id])
       /\ (/\ Has(store.errored, id) /\ Has(store'.errored, id)
           /\ \E t \in Threads :
                /\ LockedStep(t)
                /\ LockedFrame(t).op = "state_errored"
                /\ LockedFrame(t).id = id)
          => /\ store'.errored[id].state.prev_attempt
                  = Some(store.errored[id].state)
             /\ store'.errored[id].state.prev = store.errored[id].state.prev
             /\ Attempts(store'.errored[id].state)
                  = Attempts(store.errored[id].state) + 1
       /\ (Has(store.approved, id) /\ Has(store'.errored, id))
          => /\ store'.errored[id].state.prev_attempt = None
             /\ store'.errored[id].state.prev = store.approved[id].state
             /\ Attempts(store'.errored[id].state) = 1
       /\ (Has(store.errored, id) /\ Has(store'.poison, id)
             /\ ~Has(store.poison, id))
          => Becomes(store.errored[id], store'.poison[id],
                     [prev |-> store.errored[id].state])
       /\ (Has(store.approved, id) /\ Has(store'.done, id)
             /\ ~Has(store.done, id))
          => Becomes(store.approved[id], store'.done[id],
                     [variant |-> "Succeeded",
                      inner |-> store.approved[id].state])
       /\ (Has(store.errored, id) /\ Has(store'.done, id)
             /\ ~Has(store.done, id))
          => Becomes(store.errored[id], store'.done[id],
                     [variant |-> "SucceededAfterRetry",
                      inner |-> store.errored[id].state])]_vars

(* A job is done after three failed attempts, and the Init state it embeds
   has a message id and an approver *)
C25_Witness ==
  \E id \in JobIds :
    /\ Has(store.done, id)
    /\ store.done[id].state.variant = "SucceededAfterRetry"
    /\ Attempts(store.done[id].state.inner) = 3
    /\ Snapshot("done", store.done[id]).msg_id # None
    /\ Snapshot("done", store.done[id]).approved_by # <<>>

(* The Errored states of job id that the store holds, newest attempt *)
ErroredOf(s, id) ==
  (IF Has(s.errored, id) THEN {s.errored[id].state} ELSE {})
  \cup (IF Has(s.poison, id) THEN {s.poison[id].state.prev} ELSE {})
  \cup (IF Has(s.done, id) /\ s.done[id].state.variant = "SucceededAfterRetry"
          THEN {s.done[id].state.inner} ELSE {})

RECURSIVE StrictlyLater(_)
StrictlyLater(e) ==
  e.prev_attempt # None
  => /\ e.next_attempt > e.prev_attempt[1].next_attempt
     /\ StrictlyLater(e.prev_attempt[1])

(* C26: along the prev_attempt chain of every Errored state the store
   holds, the next_attempt of a state is strictly greater than the
   next_attempt of the attempt before it. *)
C26_NextAttemptIncreases ==
  \A id \in JobIds : \A e \in ErroredOf(store, id) : StrictlyLater(e)

(* C27: a thread that locks the free mutex through lock_discard_poison
   gets the guard, poisoned or not, and sees the value stored last; a
   thread that panics holding the mutex leaves it free with its data as it
   was. *)
C27_PoisonedLockStillOpens ==
  [][\A t \in Threads :
       /\ (mutex.thread[t].pc = "idle" /\ mutex'.thread[t].pc # "idle")
          => /\ mutex'.thread[t].pc = "holding"
             /\ mutex'.holder = t
             /\ mutex'.thread[t].seen = Some(mutex.data)
       /\ (mutex.thread[t].pc = "holding"
             /\ mutex'.thread[t].pc = "panicked")
          => /\ mutex'.holder = NoThread
             /\ mutex'.data = mutex.data]_vars

(* A thread holds the mutex another thread poisoned, and sees the value
   that thread stored before it panicked *)
C27_Witness ==
  \E t, u \in Threads :
    /\ mutex.poisoned
    /\ mutex.thread[u].pc = "panicked"
    /\ mutex.thread[u].seen = Some(12)
    /\ mutex.data = 13
    /\ mutex.holder = t
    /\ mutex.thread[t].seen = Some(13)

(* The branch of the last switch among the first n calls that succeeded,
   None when there is none *)
RECURSIVE LastSwitched(_, _)
LastSwitched(calls, n) ==
  IF n = 0 THEN None
  ELSE IF calls[n].op = "switch" /\ calls[n].result.ok THEN calls[n].arg
  ELSE LastSwitched(calls, n - 1)

(* C28: on every context, a call of update_branch that no successful switch
   precedes ran no git command and returned NoBranchToUpdate; every other
   call of update_branch asked for the remote of the branch of the last
   successful switch before it, failed switches in between or not, reset
   to that branch's upstream when it went on to reset, and did not return
   NoBranchToUpdate. *)
C28_UpdateBranchNeedsSwitch ==
  \A t \in Threads : \A i \in 1..Len(git[t].calls) :
    LET call == git[t].calls[i]
        last == LastSwitched(git[t].calls, i - 1)
    IN  call.op = "update_branch"
        => IF last = None
             THEN call.cmds = <<>> /\ call.result = Err("NoBranchToUpdate")
             ELSE /\ call.cmds # <<>>
                  /\ call.cmds[1] = GitConfigRemote(last[1])
                  /\ Len(call.cmds) > 1
                       => call.cmds[2]
                            = GitResetHard(upstream("origin", last[1]))
                  /\ call.result # Err("NoBranchToUpdate")

(* switch to qa succeeded, switch to staging failed, and update_branch then
   reset qa *)
C28_Witness ==
  \E t \in Threads :
    /\ Len(git[t].calls) = 3
    /\ git[t].calls[1] = CtxCall("switch", Some("qa"), <<GitSwitch("qa")>>, Ok)
    /\ git[t].calls[2].op = "switch"
    /\ git[t].calls[2].arg = Some("staging")
    /\ ~git[t].calls[2].result.ok
    /\ git[t].calls[3].op = "update_branch"
    /\ git[t].calls[3].result = Ok
    /\ git[t].calls[3].cmds[2] = GitResetHard(upstream("origin", "qa"))

(* C31: when a call of register(rep) returns, get(rep.team.id) on the token
   file gives rep.access_token. *)
C31_RegisteredTokenIsReturned ==
  [][\A t \in Threads :
       (tokens.thread[t].pc = "register" /\ tokens'.thread[t].pc = "idle")
       => TokenMgr_get(tokens'.file, tokens.thread[t].rep[1].team.id)
            = Some(tokens.thread[t].rep[1].access_token)]_vars

(* Work the worker can take, and the time until it is ready: 0 for fresh
   work, the time left until next_attempt for a retry, 0 when that is past *)
Takeable(w) == w.state.tag \in {"WorkQueued", "Errored"}

ReadyTime(w, utc_now) ==
  IF w.state.tag = "Errored" /\ w.state.next_attempt - utc_now > 0
    THEN w.state.next_attempt - utc_now
    ELSE 0

(* C32: a step in which the worker takes work removes exactly one item of
   the queue, an item no other fresh work or retry of the queue is ready
   before, and the worker goes on to execute it without sleeping exactly
   when its ready-time is 0; the worker goes waiting only when the queue
   holds no fresh work and no retry. *)
C32_TakesSoonestReady ==
  [][/\ (worker.pc = "get_work" /\ worker'.pc \in {"sleep", "exec"})
        => \E i \in 1..Len(QUEUE) :
             /\ Takeable(QUEUE[i])
             /\ QUEUE' = RemoveAt(QUEUE, i)
             /\ worker'.job = Some(QUEUE[i])
             /\ \A j \in 1..Len(QUEUE) :
                  Takeable(QUEUE[j])
                  => ReadyTime(QUEUE[i], now) <= ReadyTime(QUEUE[j], now)
             /\ worker'.pc = "exec" <=> ReadyTime(QUEUE[i], now) = 0
     /\ (worker.pc = "get_work" /\ worker'.pc = "waiting")
        => \A j \in 1..Len(QUEUE) : ~Takeable(QUEUE[j])]_vars

(* The worker executes, without having slept, the retry pushed second, whose
   next_attempt is past, and has left in the queue the retry pushed first,
   which is not ready yet *)
C32_Witness ==
  /\ worker.pc = "exec"
  /\ worker.job # None
  /\ worker.job[1].id = 2
  /\ worker.job[1].state.tag = "Errored"
  /\ worker.job[1].state.next_attempt < now
  /\ Len(QUEUE) = 1
  /\ QUEUE[1].id = 1
  /\ QUEUE[1].state.tag = "Errored"
  /\ QUEUE[1].state.next_attempt > now

(* C33: from the step that puts the worker to sleep on a retry until that
   retry has been executed, the worker's work item stays the same and no
   item leaves the queue, which only grows by what is pushed; and while the
   worker sleeps a push onto a queue that has room is possible. *)
C33_SleepBlocksFreshWork ==
  [][worker.pc \in {"sleep", "exec"}
       => /\ worker'.job = worker.job
          /\ worker.pc = "sleep" => worker'.pc \in {"sleep", "exec"}
          /\ \/ QUEUE' = QUEUE
             \/ \E job \in ExecJobs : QUEUE' = Append(QUEUE, job)
          /\ (worker.pc = "sleep" /\ Len(QUEUE) < MaxQueue)
             => ENABLED ScheduleExec]_vars

(* The worker sleeps on a retry, and the queue is full of jobs schedule_exec
   pushed, one more than it can have held when the retry was taken from it *)
C33_Witness ==
  /\ worker.pc = "sleep"
  /\ worker.job[1].state.tag = "Errored"
  /\ Len(QUEUE) = MaxQueue
  /\ \A i \in 1..Len(QUEUE) : QUEUE[i].state.tag = "Approved"

(* C34: the worker has taken no work item, to sleep on or to execute,
   unless the startup barrier APP_INIT has been released. *)
C34_WorkerAfterBarrier ==
  worker.job # None => APP_INIT.released

(* The frames, of any thread, that hold a FullyApproved event of job id *)
FullyApprovedFrames(id) ==
  {<<t, i>> \in Threads \X (1..3) :
     /\ i <= Len(stack[t])
     /\ stack[t][i].ev # None
     /\ stack[t][i].ev[1].type = "FullyApproved"
     /\ stack[t][i].ev[1].job.id = id}

(* C35: with the hooks attached, every job is on the executor's queue at
   most once, at most one FullyApproved event of it is being dispatched, and
   no more approval messages have been sent than there are jobs. *)
C35_FullyApprovedOnce ==
  /\ \A id \in JobIds :
       /\ Cardinality({i \in 1..Len(QUEUE) : QUEUE[i].id = id}) <= 1
       /\ Cardinality(FullyApprovedFrames(id)) <= 1
  /\ sent["job_approved"] <= Cardinality(issued)

(* Two approved calls have each spawned fully_approved for the job: the
   closure run second has found the job gone from created and returns None,
   after the first one's event scheduled the job and sent the message *)
C35_Witness ==
  \E t \in Threads :
    /\ ~Idle(t)
    /\ Top(t).op = "fully_approved"
    /\ Top(t).by = "spawn"
    /\ Top(t).pc = "ret"
    /\ Top(t).ret = None
    /\ Len(QUEUE) = 1
    /\ sent["job_approved"] = 1

NoRepeats(seq) == \A i, j \in 1..Len(seq) : seq[i] = seq[j] => i = j

(* C36: for every job that awaits approval, outstanding_approvers holds no
   principal twice. *)
C36_OutstandingDeduplicated ==
  \A id \in JobIds :
    Has(store.created, id)
    => NoRepeats(outstanding_approvers(store.created[id]))

(* The only principal of the job's environment is a group *)
GroupOnly(job) ==
  LET us == users(job.app, job.command.env_name)
  IN  Len(us) = 1 /\ us[1].kind = "Group"

(* C37: in handle_approval for a job whose only principal is a group, one
   matched +1 of a member of the group is enough, whatever min_approvers
   the group has: once the group is pushed and the state is stored, no
   approver is outstanding, and the next step stores Approved, schedules the
   job and replies that it is fully approved. *)
C37_OneMemberApprovesGroup ==
  [][\A t \in Threads :
       (/\ req[t].pc \in {"set_state", "approved"}
        /\ req'[t] # req[t]
        /\ GroupOnly(req[t].job)
        /\ req[t].new_state.tag = "Notified")
       => IF req[t].pc = "set_state"
            THEN req'[t].pc = "approved"
            ELSE /\ req'[t].pc = "reply"
                 /\ req'[t].outcome = "fully approved"
                 /\ lookup(JOB_QUEUE', req[t].job.id)[1].state.tag = "Approved"
                 /\ IsIn(lookup(JOB_QUEUE', req[t].job.id)[1], QUEUE')]_vars

(* One reaction of U3, member of G1, has fully approved the job of the app
   whose group asks for two approvers: the group is approved_by once, and
   the job is scheduled *)
C37_Witness ==
  \E t \in Threads :
    /\ req[t].pc = "reply"
    /\ req[t].outcome = "fully approved"
    /\ req[t].by = "U3"
    /\ LET job == lookup(JOB_QUEUE, req[t].id)[1]
       IN  /\ job.app = App6
           /\ job.state.tag = "Approved"
           /\ job.state.approved_by = <<G1Two>>
           /\ IsIn(job, QUEUE)

(* How many elements of the Vec get_all collected are job id *)
TimesRead(jobs, id) == Cardinality({i \in 1..Len(jobs) : jobs[i].id = id})

(* C38: when get_all returns, every job the store held when get_all was
   called is in the result exactly once, also when other threads moved jobs
   between the buckets during the five reads. *)
C38_GetAllExactlyOnce ==
  \A t \in Threads :
    reading[t].pc = "ret" =>
      \A id \in reading[t].had : TimesRead(reading[t].jobs, id) = 1

(* The names of the calls made so far for the repo being worked on *)
OpsMade(w) == {w.ops[i].op : i \in 1..Len(w.ops)}

(* C39: a git call is made for a repo only while no earlier call for that
   repo has failed in this attempt, a failing call leaves the pipeline with
   nothing left but the drop of the RepoContext, and push is made only after
   fetch_all, switch, update_branch and merge were made and succeeded. *)
C39_FirstFailureEndsPipeline ==
  [][(worker'.ops # worker.ops /\ worker'.ops # <<>>)
       => /\ worker.result = None
          /\ (worker'.result # None => worker'.step = "drop")
          /\ worker'.ops[Len(worker'.ops)].op = "push"
               => {"fetch_all", "switch", "update_branch", "merge"}
                    \subseteq OpsMade(worker)]_vars

(* switch failed: fetch_all and switch are the only calls made for the repo,
   and the RepoContext is about to be dropped *)
C39_Witness ==
  /\ WorkerAt("drop")
  /\ worker.result = Some(Err("CommandFailed"))
  /\ Len(worker.ops) = 2
  /\ worker.ops[2].op = "switch"

(* C40: when Client::repo returns Err, the caller owns no RepoContext, no
   RepoContext is live, the git mutex is free, so that the next repo call may
   take it, and the working directory is the home directory. *)
C40_FailedRepoLeavesClientFree ==
  [][\A t \in Threads :
       (git[t].pc = "repo" /\ git'[t].pc # "repo")
       => \/ git'[t].pc = "live"
          \/ /\ git'[t].pc = "idle"
             /\ \A u \in Threads : git'[u].pc \notin {"live", "dropping"}
             /\ git_lock' = NoThread
             /\ repo_may_lock(git_lock')
             /\ workdir' = Home]_vars

(* Client::repo failed for the first repo of the job, and the worker is
   inside Client::repo for the second, past the lock *)
C40_Witness ==
  /\ WorkerAt("repo")
  /\ worker.ix = 2
  /\ worker.ops = <<>>
  /\ worker.results = <<Err("CommandFailed")>>
  /\ git[WorkerThread].pc = "repo"
  /\ git_lock = WorkerThread
  /\ workdir = Home

====
